---- MODULE Spec2Model ----
(***************************************************************************)
(* Skill-bridge-server: the relational store (users, students, tutors,     *)
(* categories, bookings, reviews), the student / tutor / admin services    *)
(* that read and write it, the request adapters and the authorization      *)
(* gate.                                                                   *)
(*                                                                         *)
(* Every service function is an async function: it runs on the event loop  *)
(* up to its next `await` of a store call, and other requests run while it *)
(* is parked.  A request is therefore a small process (a slot of `req`)    *)
(* whose steps are the store calls of its handler, in the handler's order. *)
(***************************************************************************)
EXTENDS Integers, FiniteSets, Sequences, TLC

\* ------------------------------------------------------------------ bounds

\* Requests in flight (or answered and not yet collected) at one time.
MaxReq == 2
\* Booking rows ever created (bookingId is a fresh surrogate key).
MaxBookings == 1
\* Review rows ever created (reviewId is a fresh surrogate key).
MaxReviews == 2

Slots == 1..MaxReq

\* ------------------------------------------------------------------ values

Users == {"u1", "u2"}

\* Surrogate keys of the profile rows: one per user (students_userId_key,
\* tutors_userId_key), named after the user that owns them.
StudentIdOf(u) == IF u = "u1" THEN "s1" ELSE "s2"
TutorIdOf(u) == IF u = "u1" THEN "t1" ELSE "t2"
StudentIds == {StudentIdOf(u) : u \in Users}
TutorIds == {TutorIdOf(u) : u \in Users}

CategoryIds == {"c1", "c2"}

BookingStatus == {"CONFIRMED", "COMPLETED", "CANCELLED"}
Group == {"NONE", "SCIENCE", "HUMANITIES", "BUSINESS_STUDIES"}
UserRole == {"STUDENT", "TUTOR", "ADMIN"}
UserStatus == {"ACTIVE", "INACTIVE", "SUSPENDED"}

\* A JSON value of a request body, or a column value: t is its JavaScript
\* type ("absent": the key is not in the object), v its content.
Absent == [t |-> "absent", v |-> ""]
NullV == [t |-> "null", v |-> ""]
Str(s) == [t |-> "string", v |-> s]
Num(s) == [t |-> "number", v |-> s]

\* x ?? null
OrNull(x) == IF x.t \in {"absent", "undefined", "null"} THEN NullV ELSE x

\* Object.prototype.hasOwnProperty.call(input, key)
HasOwn(x) == x.t # "absent"

\* ------------------------------------------------------------------ errors

\* An Error object: statusCode 0 and code "" stand for "no such property".
HttpError(statusCode, code, message) ==
    [name |-> "HttpError", statusCode |-> statusCode, code |-> code,
     message |-> message]

badRequest(message) == HttpError(400, "BAD_REQUEST", message)
unauthorized(message) == HttpError(401, "UNAUTHORIZED", message)
forbidden(message) == HttpError(403, "FORBIDDEN", message)
notFound(message) == HttpError(404, "NOT_FOUND", message)
notFoundCode(message, code) == HttpError(404, code, message)
conflict(message) == HttpError(409, "CONFLICT", message)
conflictCode(message, code) == HttpError(409, code, message)

\* What the store client throws: a unique violation (P2002), a foreign key
\* violation (P2003), a missing row on update/delete (P2025).  It carries a
\* string code and no statusCode.
PrismaError(code) ==
    [name |-> "PrismaClientKnownRequestError", statusCode |-> 0,
     code |-> code, message |-> code]

\* No error was thrown.
NoError == [name |-> "none", statusCode |-> 0, code |-> "", message |-> ""]

\* A test of the code property alone.
isHttpErrorByCode(err) == err.code # ""

isHttpError(err) == err.statusCode # 0 /\ err.code # ""


ValidationError ==
    [name |-> "PrismaClientValidationError", statusCode |-> 0, code |-> "",
     message |-> "Invalid invocation"]

\* The response of a request: status 0 is "not answered yet".
NoResponse == [status |-> 0, success |-> FALSE, code |-> "", message |-> ""]
Success(status) ==
    [status |-> status, success |-> TRUE, code |-> "", message |-> ""]

\* asyncHandler's catch block.
asyncHandler(err) ==
    IF isHttpError(err)
    THEN [status |-> err.statusCode, success |-> FALSE, code |-> err.code,
          message |-> err.message]
    ELSE [status |-> 500, success |-> FALSE,
          code |-> "INTERNAL_SERVER_ERROR", message |-> err.message]

\* ------------------------------------------------------------------ state

VARIABLES
    users,         \* user id -> [role, status, emailVerified], existing users
    students,      \* studentId -> row
    tutors,        \* tutorId -> row
    categories,    \* categoryId -> row
    bookings,      \* bookingId -> row
    reviews,       \* set of review rows
    nextBookingId, \* the next fresh bookingId
    nextReviewId,  \* the next fresh reviewId
    req            \* slot -> the request it is serving

store == <<users, students, tutors, categories, bookings, reviews,
           nextBookingId, nextReviewId>>
vars == <<users, students, tutors, categories, bookings, reviews,
          nextBookingId, nextReviewId, req>>

\* ------------------------------------------------------------------ rows

Keys == {"class", "institute", "address", "phone", "profilePic", "bio",
         "group", "subject", "experience", "categoryId", "pricePerDay",
         "isAvailable", "availableFrom", "availableTo", "isFeatured",
         "date", "time", "duration", "notes", "role", "status"}

\* A request body: every key of Keys, Absent when the body does not have it.
EmptyBody == [k \in Keys |-> Absent]
Body(kvs) == [k \in Keys |-> IF k \in DOMAIN kvs THEN kvs[k] ELSE Absent]

Bool(b) == [t |-> "boolean", v |-> IF b THEN "true" ELSE "false"]

\* A key that is in the object with the value undefined.
Undef == [t |-> "undefined", v |-> ""]
\* A Date object.
Date(d) == [t |-> "date", v |-> d]
\* The strings that parse as a date; any other string does not.
DateStrings == {"d1", "d2"}

\* A students row as upsertMyStudentProfile's create branch writes it.
StudentRow(u, in) ==
    [userId |-> u, class |-> in["class"], institute |-> in["institute"],
     address |-> in["address"], phone |-> in["phone"],
     profilePic |-> OrNull(in["profilePic"]), bio |-> OrNull(in["bio"]),
     group |-> IF in["group"].t \in {"absent", "null"}
               THEN Str("NONE") ELSE in["group"]]

\* A tutors row as upsertMyTutorProfile's create branch writes it; isFeatured,
\* availableFrom and availableTo take the column defaults.
TutorRow(u, in) ==
    [userId |-> u, subject |-> in["subject"],
     experience |-> in["experience"], address |-> in["address"],
     phone |-> in["phone"], profilePic |-> OrNull(in["profilePic"]),
     bio |-> OrNull(in["bio"]), institute |-> OrNull(in["institute"]),
     group |-> in["group"], categoryId |-> in["categoryId"],
     pricePerDay |-> in["pricePerDay"], isFeatured |-> Bool(FALSE),
     isAvailable |-> Bool(TRUE), availableFrom |-> NullV,
     availableTo |-> NullV]

SeedStudentBody ==
    Body([class |-> Str("10"), institute |-> Str("ABC"),
          address |-> Str("X"), phone |-> Str("017")])
SeedTutorBody ==
    Body([subject |-> Str("Math"), experience |-> Num("2"),
          address |-> Str("X"), phone |-> Str("017"),
          group |-> Str("SCIENCE"), categoryId |-> Str("c1"),
          pricePerDay |-> Num("500")])

\* The payload of a createMyBooking call with every required field.
SeedBookingBody ==
    Body([date |-> Date("d1"), time |-> Date("d1"), duration |-> Num("2")])

SeedUser == [role |-> "STUDENT", status |-> "ACTIVE", emailVerified |-> TRUE]
SeedCategory(c) == [name |-> c, subjects |-> <<"Math">>]

\* ------------------------------------------------------------------ store reads

\* prisma.student.findUnique({ where: { userId } }): its studentId, or "none".
FindStudentByUser(u) ==
    IF \E s \in DOMAIN students : students[s].userId = u
    THEN CHOOSE s \in DOMAIN students : students[s].userId = u
    ELSE "none"

\* prisma.tutor.findUnique({ where: { userId } }): its tutorId, or "none".
FindTutorByUser(u) ==
    IF \E t \in DOMAIN tutors : tutors[t].userId = u
    THEN CHOOSE t \in DOMAIN tutors : tutors[t].userId = u
    ELSE "none"

\* What a handler keeps of the booking it read.
NoSnap == [found |-> FALSE, bookingId |-> 0, status |-> "none",
           studentId |-> "none", tutorId |-> "none", review |-> FALSE]

\* A findFirst that looks the booking up by its bookingId alone.
FindBookingOfAnyone(b, s) ==
    IF b \in DOMAIN bookings
    THEN [found |-> TRUE, bookingId |-> b, status |-> bookings[b].status,
          studentId |-> bookings[b].studentId,
          tutorId |-> bookings[b].tutorId,
          review |-> \E r \in reviews : r.bookingId = b]
    ELSE NoSnap

\* prisma.booking.findFirst({ where: { bookingId, studentId } , include review })
FindBookingOfStudent(b, s) ==
    IF b \in DOMAIN bookings /\ bookings[b].studentId = s
    THEN [found |-> TRUE, bookingId |-> b, status |-> bookings[b].status,
          studentId |-> bookings[b].studentId,
          tutorId |-> bookings[b].tutorId,
          review |-> \E r \in reviews : r.bookingId = b]
    ELSE NoSnap

\* prisma.booking.findFirst({ where: { bookingId, tutorId } })
FindBookingOfTutor(b, t) ==
    IF b \in DOMAIN bookings /\ bookings[b].tutorId = t
    THEN [found |-> TRUE, bookingId |-> b, status |-> bookings[b].status,
          studentId |-> bookings[b].studentId,
          tutorId |-> bookings[b].tutorId,
          review |-> \E r \in reviews : r.bookingId = b]
    ELSE NoSnap

\* ------------------------------------------------------------------ requests

\* What the gate keeps of a request: the middleware chain of its route
\* (variant) and the role the route requires, whose credentials the request
\* carries (cred), what the session lookup gave (session, user), whether
\* req.user is attached and whether the business handler ran.
NoUser == [role |-> "none", status |-> "none", emailVerified |-> FALSE]
NoAuth == [variant |-> "none", role |-> "none", cred |-> "none",
           session |-> "pending", user |-> NoUser, attached |-> FALSE,
           ran |-> FALSE]

\* The query of a list request and what the service returned for it.
NoQuery == [kind |-> "none"]
NoOut == [kind |-> "none"]
\* { page, limit } of a list call that gives neither: both undefined.
NoPaging == [page |-> [k |-> "undefined", n |-> 0, half |-> FALSE],
             limit |-> [k |-> "undefined", n |-> 0, half |-> FALSE]]

Idle == [op |-> "none", user |-> "none", bid |-> 0, tid |-> "none",
         rid |-> 0, rating |-> 0, cid |-> "none", target |-> "none",
         query |-> NoQuery, paging |-> NoPaging, out |-> NoOut,
         body |-> EmptyBody, pc |-> "idle",
         sid |-> "none", snap |-> NoSnap, res |-> NoResponse,
         err |-> NoError, auth |-> NoAuth]

\* The ratings a review request carries.
RatingInputs == {5}

Running(p) == req[p].pc \notin {"idle", "done"}
Done(p) == req[p].pc = "done"

\* A handler ends: its response is res, and its locals are gone.
Finish(p, res) ==
    req' = [req EXCEPT ![p].pc = "done", ![p].res = res,
                       ![p].sid = "none", ![p].snap = NoSnap]
\* A handler throws: asyncHandler turns the error into the response.
Throw(p, err) ==
    req' = [req EXCEPT ![p].pc = "done", ![p].res = asyncHandler(err),
                       ![p].err = err,
                       ![p].sid = "none", ![p].snap = NoSnap]
Goto(p, pc) == req' = [req EXCEPT ![p].pc = pc]

\* A new request reaches its handler in slot p.  Slots are filled in order:
\* a request takes the lowest free slot.
CanStart(p) ==
    /\ req[p].pc = "idle"
    /\ \A q \in Slots : q < p => req[q].pc # "idle"

Begin(p, r) == req' = [req EXCEPT ![p] = r]

\* The response has been sent and the slot is free again.
Collect(p) ==
    /\ Done(p)
    /\ req' = [req EXCEPT ![p] = Idle]
    /\ UNCHANGED store

\* ------------------------------------------------------------------ student service: bookings

MsgNoStudent == "Student profile not found. Create your profile first."
MsgNoTutorProfile == "Tutor profile not found. Create your profile first."

\* A createMyBooking that only checks that the tutor exists.
TutorBookableUnchecked(t) == TRUE

\* The guard of createMyBooking on the tutor row it read.
TutorBookable(t) == tutors[t].isAvailable = Bool(TRUE)

\* The foreign keys of a bookings row (bookings_studentId_fkey,
\* bookings_tutorId_fkey).
BookingFkOk(s, t) == s \in DOMAIN students /\ t \in DOMAIN tutors

\* createMyBooking: const student = await prisma.student.findUnique(...)
BookStudent(p) ==
    /\ req[p].pc = "book_student"
    /\ LET s == FindStudentByUser(req[p].user) IN
       IF s = "none"
       THEN Throw(p, notFound(MsgNoStudent))
       ELSE req' = [req EXCEPT ![p].pc = "book_tutor", ![p].sid = s]
    /\ UNCHANGED store

\* createMyBooking: const tutor = await prisma.tutor.findUnique(...), and the
\* two checks on it.
BookTutor(p) ==
    /\ req[p].pc = "book_tutor"
    /\ IF req[p].tid = "none"
       THEN Throw(p, ValidationError)
       ELSE IF req[p].tid \notin DOMAIN tutors
       THEN Throw(p, notFound("Tutor not found."))
       ELSE IF ~TutorBookable(req[p].tid)
       THEN Throw(p, conflict("Tutor is not available for booking."))
       ELSE Goto(p, "book_create")
    /\ UNCHANGED store

\* What the store client accepts as the data of a bookings row: date and time
\* are Dates, duration is a number, notes a string or null.
BookingDataValid(d) ==
    /\ d["date"].t = "date"
    /\ d["time"].t = "date"
    /\ d["duration"].t = "number"
    /\ OrNull(d["notes"]).t \in {"null", "string"}

\* createMyBooking: return prisma.booking.create(...)
BookCreate(p) ==
    /\ req[p].pc = "book_create"
    /\ IF ~BookingDataValid(req[p].body)
       THEN /\ Throw(p, ValidationError)
            /\ UNCHANGED <<bookings, nextBookingId>>
       ELSE IF BookingFkOk(req[p].sid, req[p].tid)
       THEN /\ bookings' = [b \in DOMAIN bookings \cup {nextBookingId} |->
                              IF b = nextBookingId
                              THEN [studentId |-> req[p].sid,
                                    tutorId |-> req[p].tid,
                                    status |-> "CONFIRMED"]
                              ELSE bookings[b]]
            /\ nextBookingId' = nextBookingId + 1
            /\ req' = [req EXCEPT ![p].pc = "done", ![p].res = Success(201),
                                  ![p].bid = nextBookingId,
                                  ![p].sid = "none"]
       ELSE /\ Throw(p, PrismaError("P2003"))
            /\ UNCHANGED <<bookings, nextBookingId>>
    /\ UNCHANGED <<users, students, tutors, categories, reviews, nextReviewId>>

\* The guard of cancelMyBooking on the status it read.
CancelAllowed(status) == status = "CONFIRMED"

\* cancelMyBooking: const student = await prisma.student.findUnique(...)
CancelStudent(p) ==
    /\ req[p].pc = "cancel_student"
    /\ LET s == FindStudentByUser(req[p].user) IN
       IF s = "none"
       THEN Throw(p, notFound(MsgNoStudent))
       ELSE req' = [req EXCEPT ![p].pc = "cancel_find", ![p].sid = s]
    /\ UNCHANGED store

\* cancelMyBooking: const booking = await prisma.booking.findFirst(...), and
\* the two checks on it.
CancelFind(p) ==
    /\ req[p].pc = "cancel_find"
    /\ LET b == FindBookingOfStudent(req[p].bid, req[p].sid) IN
       IF ~b.found
       THEN Throw(p, notFound("Booking not found."))
       ELSE IF ~CancelAllowed(b.status)
       THEN Throw(p, conflict("Only confirmed bookings can be cancelled."))
       ELSE req' = [req EXCEPT ![p].pc = "cancel_update", ![p].snap = b]
    /\ UNCHANGED store

\* cancelMyBooking: return prisma.booking.update({ where: { bookingId }, ... })
CancelUpdate(p) ==
    /\ req[p].pc = "cancel_update"
    /\ IF req[p].bid \in DOMAIN bookings
       THEN /\ bookings' = [bookings EXCEPT ![req[p].bid].status = "CANCELLED"]
            /\ Finish(p, Success(200))
       ELSE /\ Throw(p, PrismaError("P2025"))
            /\ UNCHANGED bookings
    /\ UNCHANGED <<users, students, tutors, categories, reviews,
                   nextBookingId, nextReviewId>>

\* ------------------------------------------------------------------ tutor service: sessions

\* The guard of markSessionCompleted on the status it read.
CompleteAllowed(status) == status = "CONFIRMED"

\* markSessionCompleted: const tutor = await prisma.tutor.findUnique(...)
CompleteTutor(p) ==
    /\ req[p].pc = "complete_tutor"
    /\ LET t == FindTutorByUser(req[p].user) IN
       IF t = "none"
       THEN Throw(p, notFound(MsgNoTutorProfile))
       ELSE req' = [req EXCEPT ![p].pc = "complete_find", ![p].tid = t]
    /\ UNCHANGED store

\* markSessionCompleted: const booking = await prisma.booking.findFirst(...),
\* and the two checks on it.
CompleteFind(p) ==
    /\ req[p].pc = "complete_find"
    /\ LET b == FindBookingOfTutor(req[p].bid, req[p].tid) IN
       IF ~b.found
       THEN Throw(p, notFound("Booking not found."))
       ELSE IF ~CompleteAllowed(b.status)
       THEN Throw(p, conflict(
                "Only confirmed sessions can be marked completed."))
       ELSE req' = [req EXCEPT ![p].pc = "complete_update", ![p].snap = b]
    /\ UNCHANGED store

\* markSessionCompleted: return prisma.booking.update(...)
CompleteUpdate(p) ==
    /\ req[p].pc = "complete_update"
    /\ IF req[p].bid \in DOMAIN bookings
       THEN /\ bookings' = [bookings EXCEPT ![req[p].bid].status = "COMPLETED"]
            /\ Finish(p, Success(200))
       ELSE /\ Throw(p, PrismaError("P2025"))
            /\ UNCHANGED bookings
    /\ UNCHANGED <<users, students, tutors, categories, reviews,
                   nextBookingId, nextReviewId>>

\* ------------------------------------------------------------------ student service: reviews

\* A createMyReview that refuses only cancelled sessions.
ReviewableStatusNotCancelled(status) == status # "CANCELLED"

\* The first guard of createMyReview on the booking it read.
ReviewableStatus(status) == status = "COMPLETED"

\* The second guard of createMyReview: booking.review is not there yet.
NoReviewYet(snap) == ~snap.review

\* reviews.bookingId with a plain index in place of the unique one.
ReviewBookingIdNotUnique(b) == TRUE

\* The unique index reviews_bookingId_key.
ReviewBookingIdUnique(b) == ~\E r \in reviews : r.bookingId = b

\* What the store client accepts for reviews.rating: a number; a rating that
\* is undefined (0) is refused.
RatingValid(rating) == rating # 0

\* The foreign keys of a reviews row.
ReviewFkOk(b, s, t) ==
    b \in DOMAIN bookings /\ s \in DOMAIN students /\ t \in DOMAIN tutors

\* createMyReview: const student = await prisma.student.findUnique(...)
ReviewStudent(p) ==
    /\ req[p].pc = "review_student"
    /\ LET s == FindStudentByUser(req[p].user) IN
       IF s = "none"
       THEN Throw(p, notFound(MsgNoStudent))
       ELSE req' = [req EXCEPT ![p].pc = "review_find", ![p].sid = s]
    /\ UNCHANGED store

\* The bookings findFirst({ where: { bookingId, studentId } }) can return: a
\* bookingId that is undefined (0) is no condition, and any booking of the
\* student may come first.
ReviewCandidates(bid, s) ==
    IF bid = 0 /\ \E b \in DOMAIN bookings : bookings[b].studentId = s
    THEN {b \in DOMAIN bookings : bookings[b].studentId = s}
    ELSE {bid}

\* createMyReview: const booking = await prisma.booking.findFirst(...), and
\* the three checks on it.
ReviewFind(p) ==
    /\ req[p].pc = "review_find"
    /\ \E id \in ReviewCandidates(req[p].bid, req[p].sid) :
       LET b == FindBookingOfStudent(id, req[p].sid) IN
       IF ~b.found
       THEN Throw(p, notFound("Booking not found."))
       ELSE IF ~ReviewableStatus(b.status)
       THEN Throw(p, conflict("You can only review a completed session."))
       ELSE IF ~NoReviewYet(b)
       THEN Throw(p, conflict("Review already exists for this booking."))
       ELSE req' = [req EXCEPT ![p].pc = "review_create", ![p].snap = b]
    /\ UNCHANGED store

\* createMyReview: return prisma.review.create(...)
ReviewCreate(p) ==
    /\ req[p].pc = "review_create"
    /\ IF ~RatingValid(req[p].rating)
       THEN /\ Throw(p, ValidationError)
            /\ UNCHANGED <<reviews, nextReviewId>>
       ELSE IF ~ReviewFkOk(req[p].snap.bookingId, req[p].snap.studentId,
                           req[p].snap.tutorId)
       THEN /\ Throw(p, PrismaError("P2003"))
            /\ UNCHANGED <<reviews, nextReviewId>>
       ELSE IF ~ReviewBookingIdUnique(req[p].snap.bookingId)
       THEN /\ Throw(p, PrismaError("P2002"))
            /\ UNCHANGED <<reviews, nextReviewId>>
       ELSE /\ reviews' = reviews \cup
                    {[reviewId |-> nextReviewId,
                      bookingId |-> req[p].snap.bookingId,
                      studentId |-> req[p].snap.studentId,
                      tutorId |-> req[p].snap.tutorId,
                      rating |-> req[p].rating]}
            /\ nextReviewId' = nextReviewId + 1
            /\ req' = [req EXCEPT ![p].pc = "done", ![p].res = Success(201),
                                  ![p].rid = nextReviewId,
                                  ![p].sid = "none", ![p].snap = NoSnap]
    /\ UNCHANGED <<users, students, tutors, categories, bookings,
                   nextBookingId>>

\* ------------------------------------------------------------------ admin service: moderation

\* deleteReview: return prisma.review.delete({ where: { reviewId } })
DeleteReview(p) ==
    /\ req[p].pc = "deleteReview_delete"
    /\ IF \E r \in reviews : r.reviewId = req[p].rid
       THEN /\ reviews' = {r \in reviews : r.reviewId # req[p].rid}
            /\ Finish(p, Success(200))
       ELSE /\ Throw(p, PrismaError("P2025"))
            /\ UNCHANGED reviews
    /\ UNCHANGED <<users, students, tutors, categories, bookings,
                   nextBookingId, nextReviewId>>

\* ------------------------------------------------------------------ availability

\* toDate of the tutor and admin controllers: undefined for undefined, null,
\* "" and whatever does not parse as a date.
toDate(v) ==
    IF v.t \in {"absent", "undefined", "null"} \/ v = Str("") THEN Undef
    ELSE IF v.t = "date" THEN v
    ELSE IF v.t = "string" /\ v.v \in DateStrings THEN Date(v.v)
    ELSE Undef

\* a ?? b
Coalesce(a, b) == IF a.t \in {"absent", "undefined", "null"} THEN b ELSE a

\* The tutor controller's setAvailability builds the payload: the two window
\* keys are always written into it.
AvailabilityPayload(body) ==
    [body EXCEPT
        !["availableFrom"] =
            LET x == Coalesce(toDate(body["availableFrom"]),
                              body["availableFrom"])
            IN IF x.t = "absent" THEN Undef ELSE x,
        !["availableTo"] =
            LET x == Coalesce(toDate(body["availableTo"]),
                              body["availableTo"])
            IN IF x.t = "absent" THEN Undef ELSE x]

\* The store client on a value for a Boolean column: undefined leaves the
\* column alone, a boolean is written, anything else is refused.
BoolWritable(v) == v.t \in {"absent", "undefined", "boolean"}
\* The same for a nullable DateTime column: a Date, a date string or null.
DateWritable(v) ==
    \/ v.t \in {"absent", "undefined", "null", "date"}
    \/ v.t = "string" /\ v.v \in DateStrings
DateColumn(v) == IF v.t = "string" THEN Date(v.v) ELSE v

\* The data object of setMyAvailability and setTutorAvailability: the value
\* each column is given, Absent for a column that is not in it.
AvailabilityData(input) ==
    [isAvailable |-> input["isAvailable"],
     availableFrom |-> IF HasOwn(input["availableFrom"])
                       THEN OrNull(input["availableFrom"]) ELSE Absent,
     availableTo |-> IF HasOwn(input["availableTo"])
                     THEN OrNull(input["availableTo"]) ELSE Absent]

AvailabilityDataValid(d) ==
    /\ BoolWritable(d.isAvailable)
    /\ DateWritable(d.availableFrom)
    /\ DateWritable(d.availableTo)

\* prisma.tutor.update with that data on row.
ApplyAvailability(row, d) ==
    [row EXCEPT
        !.isAvailable = IF d.isAvailable.t = "boolean"
                        THEN d.isAvailable ELSE @,
        !.availableFrom = IF d.availableFrom.t \in {"absent", "undefined"}
                          THEN @ ELSE DateColumn(d.availableFrom),
        !.availableTo = IF d.availableTo.t \in {"absent", "undefined"}
                        THEN @ ELSE DateColumn(d.availableTo)]

\* The toggle without its lookup of the caller's profile.
AvailFindUnchecked(p) ==
    /\ req[p].pc = "avail_find"
    /\ Goto(p, "avail_update")
    /\ UNCHANGED store

\* setMyAvailability: const existing = await prisma.tutor.findUnique(...)
AvailFind(p) ==
    /\ req[p].pc = "avail_find"
    /\ IF FindTutorByUser(req[p].user) = "none"
       THEN Throw(p, notFound(MsgNoTutorProfile))
       ELSE Goto(p, "avail_update")
    /\ UNCHANGED store

\* setMyAvailability: return prisma.tutor.update({ where: { userId }, ... }),
\* on the payload the controller built.
AvailUpdate(p) ==
    /\ req[p].pc = "avail_update"
    /\ LET d == AvailabilityData(AvailabilityPayload(req[p].body))
           t == FindTutorByUser(req[p].user)
       IN IF ~AvailabilityDataValid(d)
          THEN Throw(p, ValidationError) /\ UNCHANGED tutors
          ELSE IF t = "none"
          THEN Throw(p, PrismaError("P2025")) /\ UNCHANGED tutors
          ELSE /\ tutors' = [tutors EXCEPT ![t] = ApplyAvailability(@, d)]
               /\ Finish(p, Success(200))
    /\ UNCHANGED <<users, students, categories, bookings, reviews,
                   nextBookingId, nextReviewId>>

\* Admin setTutorAvailability: return prisma.tutor.update({ where: { tutorId },
\* ... }), on the request body as it came.
AdminAvailUpdate(p) ==
    /\ req[p].pc = "adminAvail_update"
    /\ LET d == AvailabilityData(req[p].body)
           t == req[p].tid
       IN IF ~AvailabilityDataValid(d)
          THEN Throw(p, ValidationError) /\ UNCHANGED tutors
          ELSE IF t \notin DOMAIN tutors
          THEN Throw(p, PrismaError("P2025")) /\ UNCHANGED tutors
          ELSE /\ tutors' = [tutors EXCEPT ![t] = ApplyAvailability(@, d)]
               /\ Finish(p, Success(200))
    /\ UNCHANGED <<users, students, categories, bookings, reviews,
                   nextBookingId, nextReviewId>>

\* ------------------------------------------------------------------ arrivals

\* Requests in flight that will still take a fresh bookingId / reviewId.
BookingsInFlight ==
    Cardinality({q \in Slots : req[q].op = "createMyBooking" /\ Running(q)})
ReviewsInFlight ==
    Cardinality({q \in Slots : req[q].op = "createMyReview" /\ Running(q)})

\* POST /bookings by user u for tutor t.
StartBook(p) ==
    /\ CanStart(p)
    /\ nextBookingId + BookingsInFlight <= MaxBookings
    /\ \E u \in DOMAIN users, t \in TutorIds :
         Begin(p, [Idle EXCEPT !.op = "createMyBooking", !.user = u,
                               !.tid = t, !.body = SeedBookingBody,
                               !.pc = "book_student"])
    /\ UNCHANGED store

\* PATCH /bookings/:id/cancel by user u.
StartCancel(p) ==
    /\ CanStart(p)
    /\ \E u \in DOMAIN users, b \in 1..MaxBookings :
         Begin(p, [Idle EXCEPT !.op = "cancelMyBooking", !.user = u,
                               !.bid = b, !.pc = "cancel_student"])
    /\ UNCHANGED store

\* PATCH /sessions/:id/complete by user u.
StartComplete(p) ==
    /\ CanStart(p)
    /\ \E u \in DOMAIN users, b \in 1..MaxBookings :
         Begin(p, [Idle EXCEPT !.op = "markSessionCompleted", !.user = u,
                               !.bid = b, !.pc = "complete_tutor"])
    /\ UNCHANGED store

\* POST /reviews by user u.
StartReview(p) ==
    /\ CanStart(p)
    /\ nextReviewId + ReviewsInFlight <= MaxReviews
    /\ \E u \in DOMAIN users, b \in 1..MaxBookings, r \in RatingInputs :
         Begin(p, [Idle EXCEPT !.op = "createMyReview", !.user = u,
                               !.bid = b, !.rating = r,
                               !.pc = "review_student"])
    /\ UNCHANGED store

\* DELETE /reviews/:id by an admin.
StartDeleteReview(p) ==
    /\ CanStart(p)
    /\ \E r \in 1..MaxReviews :
         Begin(p, [Idle EXCEPT !.op = "deleteReview", !.rid = r,
                               !.pc = "deleteReview_delete"])
    /\ UNCHANGED store

\* The bodies of an availability request that only sets the flag.
FlagBodies == {Body([isAvailable |-> Bool(a)]) : a \in BOOLEAN}

\* PUT /availability by user u.
StartAvail(p) ==
    /\ CanStart(p)
    /\ \E u \in DOMAIN users, b \in FlagBodies :
         Begin(p, [Idle EXCEPT !.op = "setMyAvailability", !.user = u,
                               !.body = b, !.pc = "avail_find"])
    /\ UNCHANGED store

\* PATCH /tutors/:id/availability by an admin.
StartAdminAvail(p) ==
    /\ CanStart(p)
    /\ \E t \in TutorIds, b \in FlagBodies :
         Begin(p, [Idle EXCEPT !.op = "setTutorAvailability", !.tid = t,
                               !.body = b, !.pc = "adminAvail_update"])
    /\ UNCHANGED store

\* ------------------------------------------------------------------ the booking lifecycle

\* A store with the student profiles of S, the tutor profiles of T (those of
\* A available for booking) and no booking yet.
InitStore(S, T, A) ==
    /\ users = [u \in Users |-> SeedUser]
    /\ students = [s \in {StudentIdOf(u) : u \in S} |->
                     StudentRow(CHOOSE u \in S : StudentIdOf(u) = s,
                                SeedStudentBody)]
    /\ tutors = [t \in {TutorIdOf(u) : u \in T} |->
                   [TutorRow(CHOOSE u \in T : TutorIdOf(u) = t,
                             SeedTutorBody)
                    EXCEPT !.isAvailable = Bool(t \in {TutorIdOf(u) : u \in A})]]
    /\ categories = [c \in {"c1"} |-> SeedCategory(c)]
    /\ bookings = [b \in {} |-> 0]
    /\ reviews = {}
    /\ nextBookingId = 1
    /\ nextReviewId = 1
    /\ req = [p \in Slots |-> Idle]

Init == InitStore(Users, Users, Users)

Next ==
    \E p \in Slots :
        \/ StartBook(p) \/ BookStudent(p) \/ BookTutor(p) \/ BookCreate(p)
        \/ StartCancel(p) \/ CancelStudent(p) \/ CancelFind(p)
        \/ CancelUpdate(p)
        \/ StartComplete(p) \/ CompleteTutor(p) \/ CompleteFind(p)
        \/ CompleteUpdate(p)
        \/ StartReview(p) \/ ReviewStudent(p) \/ ReviewFind(p)
        \/ ReviewCreate(p)
        \/ StartDeleteReview(p) \/ DeleteReview(p)
        \/ Collect(p)

Spec == Init /\ [][Next]_vars

\* ------------------------------------------------------------------ booking against availability

\* The stores a booking request can meet: user u1 has a student profile, u2
\* may have one; u2 has a tutor profile, u1 may have one; each tutor is
\* available or not.
InitAvail ==
    \E S \in {{"u1"}, Users}, T \in {{"u2"}, Users} :
        \E A \in SUBSET T : InitStore(S, T, A)

NextAvail ==
    \E p \in Slots :
        \/ StartBook(p) \/ BookStudent(p) \/ BookTutor(p) \/ BookCreate(p)
        \/ StartAvail(p) \/ AvailFind(p) \/ AvailUpdate(p)
        \/ StartAdminAvail(p) \/ AdminAvailUpdate(p)
        \/ Collect(p)

SpecAvail == InitAvail /\ [][NextAvail]_vars

\* ------------------------------------------------------------------ authorization gate

\* res.status(s).json({ success: false, error: { code, message } })
GateError(status, code, message) ==
    [status |-> status, success |-> FALSE, code |-> code, message |-> message]

\* checkUserStatus: the error response for a user that is not active, or
\* NoResponse (null).
checkUserStatus(user) ==
    IF user.status = "SUSPENDED"
    THEN GateError(403, "ACCOUNT_SUSPENDED", "Your account has been suspended.")
    ELSE IF user.status = "INACTIVE"
    THEN GateError(403, "ACCOUNT_INACTIVE", "Your account is inactive.")
    ELSE NoResponse

\* auth.api.getSession for the credentials of a request: "none" when the
\* request carries none or the user is gone, else "user" (the provider may
\* also fail: "throw").
SessionOutcomes(cred) ==
    {"throw"} \cup (IF cred \in DOMAIN users THEN {"user"} ELSE {"none"})

SessionUser(cred, outcome) == IF outcome = "user" THEN users[cred] ELSE NoUser

\* allowedRoles.includes(req.user.role)
RoleAllowed(allowed, user) == user.role = allowed

\* requireAuth, from await auth.api.getSession(...) to next() or a response.
RequireAuth(p) ==
    /\ req[p].pc = "requireAuth"
    /\ \E o \in SessionOutcomes(req[p].auth.cred) :
         LET user == SessionUser(req[p].auth.cred, o)
             a == [req[p].auth EXCEPT !.session = o, !.user = user]
         IN IF o = "throw"
            THEN req' = [req EXCEPT
                    ![p].pc = "done", ![p].auth = a,
                    ![p].res = GateError(500, "AUTH_ERROR",
                        "Internal server error during authentication.")]
            ELSE IF o = "none"
            THEN req' = [req EXCEPT
                    ![p].pc = "done", ![p].auth = a,
                    ![p].res = GateError(401, "UNAUTHORIZED",
                        "Authentication required. Please log in.")]
            ELSE IF checkUserStatus(user) # NoResponse
            THEN req' = [req EXCEPT ![p].pc = "done", ![p].auth = a,
                                    ![p].res = checkUserStatus(user)]
            ELSE req' = [req EXCEPT
                    ![p].pc = "requireRole",
                    ![p].auth = [a EXCEPT !.attached = TRUE]]
    /\ UNCHANGED store

\* A requireRole that checks the status only of a user requireAuth attached.
RequireRoleTrusting(p) ==
    /\ req[p].pc = "requireRole"
    /\ \E o \in IF req[p].auth.attached THEN {req[p].auth.session}
                ELSE SessionOutcomes(req[p].auth.cred) :
         LET user == IF req[p].auth.attached THEN req[p].auth.user
                     ELSE SessionUser(req[p].auth.cred, o)
             a == [req[p].auth EXCEPT !.session = o, !.user = user]
         IN IF o = "throw"
            THEN req' = [req EXCEPT
                    ![p].pc = "done", ![p].auth = a,
                    ![p].res = GateError(500, "SERVER_ERROR",
                                         "Error checking role")]
            ELSE IF o = "none"
            THEN req' = [req EXCEPT
                    ![p].pc = "done", ![p].auth = a,
                    ![p].res = GateError(401, "UNAUTHORIZED",
                        "Authentication required. Please log in.")]
            ELSE IF req[p].auth.attached /\ checkUserStatus(user) # NoResponse
            THEN req' = [req EXCEPT
                    ![p].pc = "done",
                    ![p].auth = [a EXCEPT !.attached = TRUE],
                    ![p].res = checkUserStatus(user)]
            ELSE IF ~RoleAllowed(req[p].auth.role, user)
            THEN req' = [req EXCEPT
                    ![p].pc = "done",
                    ![p].auth = [a EXCEPT !.attached = TRUE],
                    ![p].res = GateError(403, "FORBIDDEN",
                                         "Insufficient permissions.")]
            ELSE req' = [req EXCEPT
                    ![p].pc = "handler",
                    ![p].auth = [a EXCEPT !.attached = TRUE]]
    /\ UNCHANGED store

\* requireRole(allowed): it resolves the session itself when req.user is not
\* attached, then checks the status and the role.
RequireRole(p) ==
    /\ req[p].pc = "requireRole"
    /\ \E o \in IF req[p].auth.attached THEN {req[p].auth.session}
                ELSE SessionOutcomes(req[p].auth.cred) :
         LET user == IF req[p].auth.attached THEN req[p].auth.user
                     ELSE SessionUser(req[p].auth.cred, o)
             a == [req[p].auth EXCEPT !.session = o, !.user = user]
         IN IF o = "throw"
            THEN req' = [req EXCEPT
                    ![p].pc = "done", ![p].auth = a,
                    ![p].res = GateError(500, "SERVER_ERROR",
                                         "Error checking role")]
            ELSE IF o = "none"
            THEN req' = [req EXCEPT
                    ![p].pc = "done", ![p].auth = a,
                    ![p].res = GateError(401, "UNAUTHORIZED",
                        "Authentication required. Please log in.")]
            ELSE IF checkUserStatus(user) # NoResponse
            THEN req' = [req EXCEPT
                    ![p].pc = "done",
                    ![p].auth = [a EXCEPT !.attached = TRUE],
                    ![p].res = checkUserStatus(user)]
            ELSE IF ~RoleAllowed(req[p].auth.role, user)
            THEN req' = [req EXCEPT
                    ![p].pc = "done",
                    ![p].auth = [a EXCEPT !.attached = TRUE],
                    ![p].res = GateError(403, "FORBIDDEN",
                                         "Insufficient permissions.")]
            ELSE req' = [req EXCEPT
                    ![p].pc = "handler",
                    ![p].auth = [a EXCEPT !.attached = TRUE]]
    /\ UNCHANGED store

\* The legacy gate auth(...roles): res.status(s).json({ success, message }).
\* It has no try/catch: a failing session lookup is left to the framework.
LegacyAuth(p) ==
    /\ req[p].pc = "legacyAuth"
    /\ \E o \in SessionOutcomes(req[p].auth.cred) :
         LET user == SessionUser(req[p].auth.cred, o)
             a == [req[p].auth EXCEPT !.session = o, !.user = user]
         IN IF o = "throw"
            THEN req' = [req EXCEPT
                    ![p].pc = "done", ![p].auth = a,
                    ![p].res = GateError(500, "", "unhandled")]
            ELSE IF o = "none"
            THEN req' = [req EXCEPT
                    ![p].pc = "done", ![p].auth = a,
                    ![p].res = GateError(401, "", "You are not authorized!")]
            ELSE IF ~user.emailVerified
            THEN req' = [req EXCEPT
                    ![p].pc = "done", ![p].auth = a,
                    ![p].res = GateError(403, "",
                        "Email verification required. Please verify your email!")]
            ELSE IF ~RoleAllowed(req[p].auth.role, user)
            THEN req' = [req EXCEPT
                    ![p].pc = "done",
                    ![p].auth = [a EXCEPT !.attached = TRUE],
                    ![p].res = GateError(401, "",
                        "Forbidden! YOu don't have permission to access tis resources")]
            ELSE req' = [req EXCEPT
                    ![p].pc = "handler",
                    ![p].auth = [a EXCEPT !.attached = TRUE]]
    /\ UNCHANGED store

\* The route's controller runs and answers.
Handler(p) ==
    /\ req[p].pc = "handler"
    /\ req' = [req EXCEPT ![p].pc = "done", ![p].res = Success(200),
                          ![p].auth.ran = TRUE]
    /\ UNCHANGED store

GateVariants == {"authThenRole", "roleOnly", "legacy"}
FirstMiddleware(variant) ==
    IF variant = "authThenRole" THEN "requireAuth"
    ELSE IF variant = "roleOnly" THEN "requireRole"
    ELSE "legacyAuth"

\* A request for a route that requires role r, with the credentials of c
\* ("none": no session cookie).
StartGated(p) ==
    /\ CanStart(p)
    /\ \E v \in GateVariants, r \in UserRole, c \in Users \cup {"none"} :
         Begin(p, [Idle EXCEPT
                     !.op = "gated", !.pc = FirstMiddleware(v),
                     !.auth = [NoAuth EXCEPT !.variant = v, !.role = r,
                                             !.cred = c]])
    /\ UNCHANGED store

\* The user records the session lookup can return: any role, any status,
\* verified or not.
UserRecords ==
    [role : UserRole, status : UserStatus, emailVerified : BOOLEAN]

InitGate ==
    /\ users \in [{"u1"} -> UserRecords]
    /\ students = [s \in {} |-> 0]
    /\ tutors = [t \in {} |-> 0]
    /\ categories = [c \in {} |-> 0]
    /\ bookings = [b \in {} |-> 0]
    /\ reviews = {}
    /\ nextBookingId = 1
    /\ nextReviewId = 1
    /\ req = [p \in Slots |-> Idle]

NextGate ==
    \E p \in Slots :
        \/ StartGated(p) \/ RequireAuth(p) \/ RequireRole(p)
        \/ LegacyAuth(p) \/ Handler(p) \/ Collect(p)

SpecGate == InitGate /\ [][NextGate]_vars

\* ------------------------------------------------------------------ profiles: partial update

\* JavaScript truthiness of a body value.
Truthy(x) ==
    /\ x.t \notin {"absent", "undefined", "null"}
    /\ x # Str("") /\ x # Num("0") /\ x # Bool(FALSE)

\* ...(typeof input.k === "string" ? { k: input.k } : {})
IfString(x) == IF x.t = "string" THEN x ELSE Absent
\* ...(typeof input.k === "number" ? { k: input.k } : {})
IfNumber(x) == IF x.t = "number" THEN x ELSE Absent

\* A presence test by value: an explicit null is taken for "not given".
IfOwnOrNullByValue(x) == IF Truthy(x) THEN x ELSE Absent

\* ...(hasOwnProperty.call(input, "k") ? { k: input.k ?? null } : {})
IfOwnOrNull(x) == IF HasOwn(x) THEN OrNull(x) ELSE Absent
\* ...(input.k ? { k: input.k } : {})
IfTruthy(x) == IF Truthy(x) THEN x ELSE Absent

\* The data object of updateMyStudentProfile: Absent for a column that is
\* not in it.
StudentUpdateData(input) ==
    [class |-> IfString(input["class"]),
     institute |-> IfString(input["institute"]),
     address |-> IfString(input["address"]),
     phone |-> IfString(input["phone"]),
     profilePic |-> IfOwnOrNull(input["profilePic"]),
     bio |-> IfOwnOrNull(input["bio"]),
     group |-> IfTruthy(input["group"])]

\* The data object of updateMyTutorProfile.
\* A data object that also takes isFeatured from the input.
TutorUpdateDataWithFeatured(input) ==
    [subject |-> IfString(input["subject"]),
     experience |-> IfNumber(input["experience"]),
     address |-> IfString(input["address"]),
     phone |-> IfString(input["phone"]),
     profilePic |-> IfOwnOrNull(input["profilePic"]),
     bio |-> IfOwnOrNull(input["bio"]),
     institute |-> IfOwnOrNull(input["institute"]),
     group |-> IfTruthy(input["group"]),
     categoryId |-> IfString(input["categoryId"]),
     pricePerDay |-> IfNumber(input["pricePerDay"]),
     isFeatured |-> input["isFeatured"]]

\* updateMyTutorProfile: the data object, a column Absent when it is not in it.
TutorUpdateData(input) ==
    [subject |-> IfString(input["subject"]),
     experience |-> IfNumber(input["experience"]),
     address |-> IfString(input["address"]),
     phone |-> IfString(input["phone"]),
     profilePic |-> IfOwnOrNull(input["profilePic"]),
     bio |-> IfOwnOrNull(input["bio"]),
     institute |-> IfOwnOrNull(input["institute"]),
     group |-> IfTruthy(input["group"]),
     categoryId |-> IfString(input["categoryId"]),
     pricePerDay |-> IfNumber(input["pricePerDay"])]

\* What the store client accepts for a column: a nullable text column takes a
\* string or null, the group column a value of the Group enum.
TextWritable(v) == v.t \in {"absent", "undefined", "null", "string"}
GroupWritable(v) ==
    v.t \in {"absent", "undefined"} \/ (v.t = "string" /\ v.v \in Group)

ProfileDataValid(d) ==
    /\ TextWritable(d.profilePic) /\ TextWritable(d.bio)
    /\ GroupWritable(d.group)
    /\ "institute" \in DOMAIN d => TextWritable(d.institute)

\* prisma.<table>.update({ data }) on row: the columns of data are written,
\* the others kept.
ApplyData(row, d) ==
    [f \in DOMAIN row |->
        IF f \in DOMAIN d /\ d[f].t \notin {"absent", "undefined"}
        THEN d[f] ELSE row[f]]

\* updateMyStudentProfile: const existing = await prisma.student.findUnique(...)
UpdateStudentFind(p) ==
    /\ req[p].pc = "updateStudent_find"
    /\ IF FindStudentByUser(req[p].user) = "none"
       THEN Throw(p, notFound(MsgNoStudent))
       ELSE Goto(p, "updateStudent_update")
    /\ UNCHANGED store

\* updateMyStudentProfile: return prisma.student.update({ where: { userId }, ... })
UpdateStudentUpdate(p) ==
    /\ req[p].pc = "updateStudent_update"
    /\ LET d == StudentUpdateData(req[p].body)
           s == FindStudentByUser(req[p].user)
       IN IF ~ProfileDataValid(d)
          THEN Throw(p, ValidationError) /\ UNCHANGED students
          ELSE IF s = "none"
          THEN Throw(p, PrismaError("P2025")) /\ UNCHANGED students
          ELSE /\ students' = [students EXCEPT ![s] = ApplyData(@, d)]
               /\ Finish(p, Success(200))
    /\ UNCHANGED <<users, tutors, categories, bookings, reviews,
                   nextBookingId, nextReviewId>>

\* updateMyTutorProfile: const existing = await prisma.tutor.findUnique(...)
UpdateTutorFind(p) ==
    /\ req[p].pc = "updateTutor_find"
    /\ IF FindTutorByUser(req[p].user) = "none"
       THEN Throw(p, notFound(MsgNoTutorProfile))
       ELSE IF req[p].body["categoryId"].t = "string"
       THEN Goto(p, "updateTutor_category")
       ELSE Goto(p, "updateTutor_update")
    /\ UNCHANGED store

\* updateMyTutorProfile: const category = await prisma.category.findUnique(...)
UpdateTutorCategory(p) ==
    /\ req[p].pc = "updateTutor_category"
    /\ IF req[p].body["categoryId"].v \notin DOMAIN categories
       THEN Throw(p, notFoundCode("Category not found.", "INVALID_CATEGORY"))
       ELSE Goto(p, "updateTutor_update")
    /\ UNCHANGED store

\* The foreign key tutors_categoryId_fkey on the data of a tutor write.
CategoryFkOk(d) ==
    d.categoryId.t = "string" => d.categoryId.v \in DOMAIN categories

\* updateMyTutorProfile: return prisma.tutor.update({ where: { userId }, ... })
UpdateTutorUpdate(p) ==
    /\ req[p].pc = "updateTutor_update"
    /\ LET d == TutorUpdateData(req[p].body)
           t == FindTutorByUser(req[p].user)
       IN IF ~ProfileDataValid(d)
          THEN Throw(p, ValidationError) /\ UNCHANGED tutors
          ELSE IF t = "none"
          THEN Throw(p, PrismaError("P2025")) /\ UNCHANGED tutors
          ELSE IF ~CategoryFkOk(d)
          THEN Throw(p, PrismaError("P2003")) /\ UNCHANGED tutors
          ELSE /\ tutors' = [tutors EXCEPT ![t] = ApplyData(@, d)]
               /\ Finish(p, Success(200))
    /\ UNCHANGED <<users, students, categories, bookings, reviews,
                   nextBookingId, nextReviewId>>

\* The columns of each table that take NULL.
NullableColumns(op) ==
    IF op = "updateMyStudentProfile" THEN {"profilePic", "bio"}
    ELSE {"profilePic", "bio", "institute"}

\* The keys a profile body may carry, and the values it may give each: null,
\* or a value of the key's type (for categoryId, an existing category or one
\* that does not exist).
StudentKeys == {"class", "institute", "address", "phone", "profilePic",
                "bio", "group"}
TutorKeys == {"subject", "experience", "address", "phone", "profilePic",
              "bio", "institute", "group", "categoryId", "pricePerDay"}
KeyValues(k) ==
    {NullV} \cup
    (IF k \in {"experience", "pricePerDay"} THEN {Num("9"), Num("0")}
     ELSE IF k = "group" THEN {Str("HUMANITIES")}
     ELSE IF k = "categoryId" THEN {Str("c2"), Str("c9")}
     ELSE {Str("new")})

\* At most MaxKeys keys in a request body.
MaxKeys == 3

\* The bodies over the keys of K with at most MaxKeys keys present.
Bodies(K) ==
    UNION {{Body(kv) : kv \in {f \in [ks -> UNION {KeyValues(k) : k \in ks}] :
                                  \A k \in ks : f[k] \in KeyValues(k)}} :
           ks \in {S \in SUBSET K : Cardinality(S) <= MaxKeys}}

StudentBodies == Bodies(StudentKeys)
TutorBodies == Bodies(TutorKeys)

\* PATCH /student/me by user u.
StartUpdateStudent(p) ==
    /\ CanStart(p)
    /\ \E u \in DOMAIN users, b \in StudentBodies :
         Begin(p, [Idle EXCEPT !.op = "updateMyStudentProfile", !.user = u,
                               !.body = b, !.pc = "updateStudent_find"])
    /\ UNCHANGED store

\* PATCH /tutor/me by user u.
StartUpdateTutor(p) ==
    /\ CanStart(p)
    /\ \E u \in DOMAIN users, b \in TutorBodies :
         Begin(p, [Idle EXCEPT !.op = "updateMyTutorProfile", !.user = u,
                               !.body = b, !.pc = "updateTutor_find"])
    /\ UNCHANGED store

\* The stores a profile request can meet: u1 has a student profile and u2 a
\* tutor profile, each with its optional columns filled or null; categories
\* c1 and c2 exist.
InitProfile ==
    \E filled \in BOOLEAN :
        LET opt == IF filled THEN Str("old") ELSE NullV IN
        /\ users = [u \in Users |-> SeedUser]
        /\ students = [s \in {StudentIdOf("u1")} |->
                         StudentRow("u1",
                            [SeedStudentBody EXCEPT !["profilePic"] = opt,
                                                    !["bio"] = opt])]
        /\ tutors = [t \in {TutorIdOf("u2")} |->
                       TutorRow("u2",
                          [SeedTutorBody EXCEPT !["profilePic"] = opt,
                                                !["bio"] = opt,
                                                !["institute"] = opt])]
        /\ categories = [c \in {"c1", "c2"} |-> SeedCategory(c)]
        /\ bookings = [b \in {} |-> 0]
        /\ reviews = {}
        /\ nextBookingId = 1
        /\ nextReviewId = 1
        /\ req = [p \in Slots |-> Idle]

\* One request against that store.
NextProfile ==
    \/ StartUpdateStudent(1) \/ UpdateStudentFind(1) \/ UpdateStudentUpdate(1)
    \/ StartUpdateTutor(1) \/ UpdateTutorFind(1) \/ UpdateTutorCategory(1)
    \/ UpdateTutorUpdate(1)

SpecProfile == InitProfile /\ [][NextProfile]_vars

\* ------------------------------------------------------------------ profiles: upsert

\* What the store client accepts for a required column of a create: a value
\* of the column's type.
RequiredText(v) == v.t = "string"
RequiredNumber(v) == v.t = "number"
RequiredGroup(v) == v.t = "string" /\ v.v \in Group

\* The update branch of upsertMyStudentProfile: required columns as given,
\* optional ones by presence.
StudentUpsertUpdateData(input) ==
    [class |-> input["class"],
     institute |-> input["institute"],
     address |-> input["address"],
     phone |-> input["phone"],
     profilePic |-> IfOwnOrNull(input["profilePic"]),
     bio |-> IfOwnOrNull(input["bio"]),
     group |-> IfTruthy(input["group"])]

\* The store client validates the create and the update arguments of
\* prisma.student.upsert before it runs either.
StudentUpsertValid(input) ==
    /\ RequiredText(input["class"]) /\ RequiredText(input["institute"])
    /\ RequiredText(input["address"]) /\ RequiredText(input["phone"])
    /\ TextWritable(input["profilePic"]) /\ TextWritable(input["bio"])
    /\ RequiredGroup(Coalesce(input["group"], Str("NONE")))

\* upsertMyStudentProfile: return prisma.student.upsert({ where: { userId }, ... })
UpsertStudent(p) ==
    /\ req[p].pc = "upsertStudent_upsert"
    /\ LET in == req[p].body
           u == req[p].user
           s == FindStudentByUser(u)
       IN IF ~StudentUpsertValid(in)
          THEN Throw(p, ValidationError) /\ UNCHANGED students
          ELSE IF s = "none"
          THEN IF u \in DOMAIN users
               THEN /\ students' = [x \in DOMAIN students \cup {StudentIdOf(u)}
                                      |-> IF x = StudentIdOf(u)
                                          THEN StudentRow(u, in)
                                          ELSE students[x]]
                    /\ Finish(p, Success(200))
               ELSE Throw(p, PrismaError("P2003")) /\ UNCHANGED students
          ELSE /\ students' = [students EXCEPT
                                 ![s] = ApplyData(@, StudentUpsertUpdateData(in))]
               /\ Finish(p, Success(200))
    /\ UNCHANGED <<users, tutors, categories, bookings, reviews,
                   nextBookingId, nextReviewId>>

\* upsertMyTutorProfile: const category = await prisma.category.findUnique(...)
UpsertTutorCategory(p) ==
    /\ req[p].pc = "upsertTutor_category"
    /\ LET c == req[p].body["categoryId"]
       IN IF c.t # "string"
          THEN Throw(p, ValidationError)
          ELSE IF c.v \notin DOMAIN categories
          THEN Throw(p, notFoundCode("Category not found.",
                                     "INVALID_CATEGORY"))
          ELSE Goto(p, "upsertTutor_upsert")
    /\ UNCHANGED store

\* The update branch of upsertMyTutorProfile.
TutorUpsertUpdateData(input) ==
    [subject |-> input["subject"],
     experience |-> input["experience"],
     address |-> input["address"],
     phone |-> input["phone"],
     profilePic |-> IfOwnOrNull(input["profilePic"]),
     bio |-> IfOwnOrNull(input["bio"]),
     institute |-> IfOwnOrNull(input["institute"]),
     group |-> input["group"],
     categoryId |-> input["categoryId"],
     pricePerDay |-> input["pricePerDay"]]

TutorUpsertValid(input) ==
    /\ RequiredText(input["subject"]) /\ RequiredNumber(input["experience"])
    /\ RequiredText(input["address"]) /\ RequiredText(input["phone"])
    /\ TextWritable(input["profilePic"]) /\ TextWritable(input["bio"])
    /\ TextWritable(input["institute"])
    /\ RequiredGroup(input["group"])
    /\ RequiredText(input["categoryId"])
    /\ RequiredNumber(input["pricePerDay"])

\* upsertMyTutorProfile: return prisma.tutor.upsert({ where: { userId }, ... })
UpsertTutorWrite(p) ==
    /\ req[p].pc = "upsertTutor_upsert"
    /\ LET in == req[p].body
           u == req[p].user
           t == FindTutorByUser(u)
       IN IF ~TutorUpsertValid(in)
          THEN Throw(p, ValidationError) /\ UNCHANGED tutors
          ELSE IF ~CategoryFkOk(TutorUpsertUpdateData(in))
                  \/ (t = "none" /\ u \notin DOMAIN users)
          THEN Throw(p, PrismaError("P2003")) /\ UNCHANGED tutors
          ELSE IF t = "none"
          THEN /\ tutors' = [x \in DOMAIN tutors \cup {TutorIdOf(u)}
                               |-> IF x = TutorIdOf(u) THEN TutorRow(u, in)
                                   ELSE tutors[x]]
               /\ Finish(p, Success(200))
          ELSE /\ tutors' = [tutors EXCEPT
                               ![t] = ApplyData(@, TutorUpsertUpdateData(in))]
               /\ Finish(p, Success(200))
    /\ UNCHANGED <<users, students, categories, bookings, reviews,
                   nextBookingId, nextReviewId>>

\* The values an upsert body gives an optional key, and the group of a
\* student body.
OptionalValues == {Absent, NullV, Str("new")}

\* The bodies of PUT /student/me: the required keys given (class possibly
\* left out), the optional ones given or not.
StudentUpsertBodies ==
    {Body([class |-> c, institute |-> Str("new"), address |-> Str("new"),
           phone |-> Str("new"), profilePic |-> pp, bio |-> b, group |-> g]) :
        c \in {Str("new"), Absent}, pp \in OptionalValues,
        b \in OptionalValues, g \in {Absent, Str("HUMANITIES")}}

\* The bodies of PUT /tutor/me: the category one that exists or one that does
\* not.
TutorUpsertBodies ==
    {Body([subject |-> sb, experience |-> Num("9"), address |-> Str("new"),
           phone |-> Str("new"), profilePic |-> pp, bio |-> b,
           institute |-> i, group |-> Str("HUMANITIES"), categoryId |-> c,
           pricePerDay |-> Num("0")]) :
        sb \in {Str("new"), Absent}, pp \in OptionalValues,
        b \in OptionalValues, i \in OptionalValues,
        c \in {Str("c2"), Str("c9")}}

\* PUT /student/me by user u.
StartUpsertStudent(p) ==
    /\ CanStart(p)
    /\ \E u \in DOMAIN users, b \in StudentUpsertBodies :
         Begin(p, [Idle EXCEPT !.op = "upsertMyStudentProfile", !.user = u,
                               !.body = b, !.pc = "upsertStudent_upsert"])
    /\ UNCHANGED store

\* PUT /tutor/me by user u.
StartUpsertTutor(p) ==
    /\ CanStart(p)
    /\ \E u \in DOMAIN users, b \in TutorUpsertBodies :
         Begin(p, [Idle EXCEPT !.op = "upsertMyTutorProfile", !.user = u,
                               !.body = b, !.pc = "upsertTutor_category"])
    /\ UNCHANGED store

\* ------------------------------------------------------------------ one profile write

\* The values a toggle body gives a window key: none, null, a date string, a
\* string that is no date.
WindowValues == {Absent, NullV, Str("d1"), Str("soon")}

\* The bodies of PUT /availability.
ToggleBodies ==
    {Body([isAvailable |-> a, availableFrom |-> f, availableTo |-> t]) :
        a \in {Bool(TRUE), Bool(FALSE)}, f \in WindowValues,
        t \in WindowValues}

\* PUT /tutor/availability by user u.
StartToggle(p) ==
    /\ CanStart(p)
    /\ \E u \in DOMAIN users, b \in ToggleBodies :
         Begin(p, [Idle EXCEPT !.op = "setMyAvailability", !.user = u,
                               !.body = b, !.pc = "avail_find"])
    /\ UNCHANGED store

\* PATCH /admin/tutors/:id/availability.
StartAdminToggle(p) ==
    /\ CanStart(p)
    /\ \E t \in TutorIds, b \in ToggleBodies :
         Begin(p, [Idle EXCEPT !.op = "setTutorAvailability", !.tid = t,
                               !.body = b, !.pc = "adminAvail_update"])
    /\ UNCHANGED store

\* The stores a profile write can meet: those of InitProfile, the tutor's
\* availability window set or null.
InitWrite ==
    \E filled \in BOOLEAN, windowed \in BOOLEAN :
        LET opt == IF filled THEN Str("old") ELSE NullV
            win == IF windowed THEN Date("d2") ELSE NullV
        IN
        /\ users = [u \in Users |-> SeedUser]
        /\ students = [s \in {StudentIdOf("u1")} |->
                         StudentRow("u1",
                            [SeedStudentBody EXCEPT !["profilePic"] = opt,
                                                    !["bio"] = opt])]
        /\ tutors = [t \in {TutorIdOf("u2")} |->
                       [TutorRow("u2",
                          [SeedTutorBody EXCEPT !["profilePic"] = opt,
                                                !["bio"] = opt,
                                                !["institute"] = opt])
                        EXCEPT !.availableFrom = win, !.availableTo = win]]
        /\ categories = [c \in {"c1", "c2"} |-> SeedCategory(c)]
        /\ bookings = [b \in {} |-> 0]
        /\ reviews = {}
        /\ nextBookingId = 1
        /\ nextReviewId = 1
        /\ req = [p \in Slots |-> Idle]

\* One write request against that store.
NextWrite ==
    \/ StartUpdateStudent(1) \/ UpdateStudentFind(1) \/ UpdateStudentUpdate(1)
    \/ StartUpdateTutor(1) \/ UpdateTutorFind(1) \/ UpdateTutorCategory(1)
    \/ UpdateTutorUpdate(1)
    \/ StartToggle(1) \/ AvailFind(1) \/ AvailUpdate(1)
    \/ StartAdminToggle(1) \/ AdminAvailUpdate(1)
    \/ StartUpsertStudent(1) \/ UpsertStudent(1)
    \/ StartUpsertTutor(1) \/ UpsertTutorCategory(1) \/ UpsertTutorWrite(1)

SpecWrite == InitWrite /\ [][NextWrite]_vars

\* ------------------------------------------------------------------ admin service: categories

\* The rows that go with a set T of tutor rows under ON DELETE CASCADE: their
\* bookings, and the reviews of those tutors and bookings.
BookingsOfTutors(T) == {b \in DOMAIN bookings : bookings[b].tutorId \in T}
ReviewsOfTutors(T) ==
    {r \in reviews : r.tutorId \in T \/ r.bookingId \in BookingsOfTutors(T)}

\* prisma.tutor.count({ where: { categoryId } })
TutorCount(c) ==
    Cardinality({t \in DOMAIN tutors : tutors[t].categoryId = Str(c)})

\* A guard that lets every category through.
CategoryFreeUnchecked(c) == TRUE

\* if (tutorCount > 0) throw ...: the category may be deleted.
CategoryFree(c) == ~(TutorCount(c) > 0)

\* deleteCategory: const tutorCount = await prisma.tutor.count(...)
DeleteCategoryCount(p) ==
    /\ req[p].pc = "deleteCategory_count"
    /\ IF ~CategoryFree(req[p].cid)
       THEN Throw(p, conflictCode(
                "Cannot delete category that is still assigned to tutors.",
                "CATEGORY_IN_USE"))
       ELSE Goto(p, "deleteCategory_delete")
    /\ UNCHANGED store

\* deleteCategory: return prisma.category.delete({ where: { categoryId } });
\* tutors_categoryId_fkey is ON DELETE CASCADE.
DeleteCategoryDelete(p) ==
    /\ req[p].pc = "deleteCategory_delete"
    /\ LET c == req[p].cid
           T == {t \in DOMAIN tutors : tutors[t].categoryId = Str(c)}
       IN IF c \notin DOMAIN categories
          THEN /\ Throw(p, PrismaError("P2025"))
               /\ UNCHANGED <<categories, tutors, bookings, reviews>>
          ELSE /\ categories' = [x \in DOMAIN categories \ {c} |->
                                   categories[x]]
               /\ tutors' = [t \in DOMAIN tutors \ T |-> tutors[t]]
               /\ bookings' = [b \in DOMAIN bookings \ BookingsOfTutors(T) |->
                                 bookings[b]]
               /\ reviews' = reviews \ ReviewsOfTutors(T)
               /\ Finish(p, Success(200))
    /\ UNCHANGED <<users, students, nextBookingId, nextReviewId>>

\* DELETE /admin/categories/:id
StartDeleteCategory(p) ==
    /\ CanStart(p)
    /\ \E c \in CategoryIds :
         Begin(p, [Idle EXCEPT !.op = "deleteCategory", !.cid = c,
                               !.pc = "deleteCategory_count"])
    /\ UNCHANGED store

\* The categoryIds a tutor write names: the two seeded ones and one that
\* never existed.
CategoryInputs == {Str("c1"), Str("c2"), Str("c9")}

\* A tutor profile write that names a category: PUT /tutor/me with a full body
\* or PATCH /tutor/me with the categoryId alone.
StartCategoryWrite(p) ==
    /\ CanStart(p)
    /\ \E u \in DOMAIN users, c \in CategoryInputs :
         \/ Begin(p, [Idle EXCEPT !.op = "upsertMyTutorProfile", !.user = u,
                                  !.body = [SeedTutorBody EXCEPT
                                               !["categoryId"] = c],
                                  !.pc = "upsertTutor_category"])
         \/ Begin(p, [Idle EXCEPT !.op = "updateMyTutorProfile", !.user = u,
                                  !.body = Body([categoryId |-> c]),
                                  !.pc = "updateTutor_find"])
    /\ UNCHANGED store

\* The stores a category request can meet: categories c1 and c2, u2 a tutor
\* of c1, u1 a tutor of c2 or no tutor.
InitCategory ==
    \E T \in {{"u2"}, Users} :
        /\ users = [u \in Users |-> SeedUser]
        /\ students = [s \in {} |-> 0]
        /\ tutors = [t \in {TutorIdOf(u) : u \in T} |->
                       TutorRow(CHOOSE u \in T : TutorIdOf(u) = t,
                                [SeedTutorBody EXCEPT !["categoryId"] =
                                    IF t = TutorIdOf("u2") THEN Str("c1")
                                    ELSE Str("c2")])]
        /\ categories = [c \in CategoryIds |-> SeedCategory(c)]
        /\ bookings = [b \in {} |-> 0]
        /\ reviews = {}
        /\ nextBookingId = 1
        /\ nextReviewId = 1
        /\ req = [p \in Slots |-> Idle]

NextCategory ==
    \E p \in Slots :
        \/ StartDeleteCategory(p) \/ DeleteCategoryCount(p)
        \/ DeleteCategoryDelete(p)
        \/ StartCategoryWrite(p)
        \/ UpsertTutorCategory(p) \/ UpsertTutorWrite(p)
        \/ UpdateTutorFind(p) \/ UpdateTutorCategory(p) \/ UpdateTutorUpdate(p)
        \/ Collect(p)

SpecCategory == InitCategory /\ [][NextCategory]_vars

\* ------------------------------------------------------------------ admin service: hard delete

\* The profile rows of user u (students_userId_fkey, tutors_userId_fkey).
StudentsOfUser(u) == {x \in DOMAIN students : students[x].userId = u}
TutorsOfUser(u) == {x \in DOMAIN tutors : tutors[x].userId = u}

\* A cascade that stops at the profiles.
BookingsOfProfilesKept(S, T) == {}

\* The bookings of student rows S and tutor rows T (bookings_studentId_fkey,
\* bookings_tutorId_fkey), and the reviews of those profiles and bookings.
BookingsOfProfiles(S, T) ==
    {b \in DOMAIN bookings :
        bookings[b].studentId \in S \/ bookings[b].tutorId \in T}
ReviewsOfProfiles(S, T) ==
    {r \in reviews : \/ r.studentId \in S \/ r.tutorId \in T
                     \/ r.bookingId \in BookingsOfProfiles(S, T)}

\* deleteUserHard: const user = await prisma.user.findUnique(...);
\* if (!user) return null
DeleteUserFind(p) ==
    /\ req[p].pc = "deleteUser_find"
    /\ IF req[p].target \notin DOMAIN users
       THEN Finish(p, Success(200))
       ELSE Goto(p, "deleteUser_delete")
    /\ UNCHANGED store

\* deleteUserHard: await prisma.user.delete({ where: { id: userId } }), with
\* the ON DELETE CASCADE of the foreign keys.
DeleteUserDelete(p) ==
    /\ req[p].pc = "deleteUser_delete"
    /\ LET u == req[p].target
           S == StudentsOfUser(u)
           T == TutorsOfUser(u)
       IN IF u \notin DOMAIN users
          THEN /\ Throw(p, PrismaError("P2025"))
               /\ UNCHANGED <<users, students, tutors, bookings, reviews>>
          ELSE /\ users' = [x \in DOMAIN users \ {u} |-> users[x]]
               /\ students' = [x \in DOMAIN students \ S |-> students[x]]
               /\ tutors' = [x \in DOMAIN tutors \ T |-> tutors[x]]
               /\ bookings' = [b \in DOMAIN bookings \ BookingsOfProfiles(S, T)
                                 |-> bookings[b]]
               /\ reviews' = reviews \ ReviewsOfProfiles(S, T)
               /\ Finish(p, Success(200))
    /\ UNCHANGED <<categories, nextBookingId, nextReviewId>>

\* DELETE /admin/users/:id
StartDeleteUser(p) ==
    /\ CanStart(p)
    /\ \E u \in Users :
         Begin(p, [Idle EXCEPT !.op = "deleteUserHard", !.target = u,
                               !.pc = "deleteUser_find"])
    /\ UNCHANGED store

\* Bookings, sessions and reviews with users and categories being deleted.
NextCascade ==
    \E p \in Slots :
        \/ StartBook(p) \/ BookStudent(p) \/ BookTutor(p) \/ BookCreate(p)
        \/ StartComplete(p) \/ CompleteTutor(p) \/ CompleteFind(p)
        \/ CompleteUpdate(p)
        \/ StartReview(p) \/ ReviewStudent(p) \/ ReviewFind(p)
        \/ ReviewCreate(p)
        \/ StartDeleteUser(p) \/ DeleteUserFind(p) \/ DeleteUserDelete(p)
        \/ StartDeleteCategory(p) \/ DeleteCategoryCount(p)
        \/ DeleteCategoryDelete(p)
        \/ Collect(p)

SpecCascade == Init /\ [][NextCascade]_vars

\* ------------------------------------------------------------------ pagination

\* A JavaScript number, scaled down: a double with FloatBits bits of mantissa
\* instead of 53 and a largest exponent of FloatExp instead of 971.  Integers
\* up to 2^FloatBits are exact, above that only every second, fourth, ... one
\* is a number, and beyond MaxFinite there is Infinity.
FloatBits == 10
FloatExp == 6

RECURSIVE Pow2(_)
Pow2(n) == IF n = 0 THEN 1 ELSE 2 * Pow2(n - 1)

MaxSafe == Pow2(FloatBits)
MaxFinite == (MaxSafe - 1) * Pow2(FloatExp)

\* n + 1/2 when half, n otherwise.
Fin(n) == [k |-> "fin", n |-> n, half |-> FALSE]
FinHalf(n) == [k |-> "fin", n |-> n, half |-> TRUE]
NaN == [k |-> "nan", n |-> 0, half |-> FALSE]
PosInf == [k |-> "inf", n |-> 0, half |-> FALSE]
NegInf == [k |-> "ninf", n |-> 0, half |-> FALSE]
\* undefined, for a key the input does not have.
NoNumber == [k |-> "undefined", n |-> 0, half |-> FALSE]

\* The distance between neighbouring numbers at x >= 0.
RECURSIVE Spacing(_)
Spacing(x) == IF x < MaxSafe THEN 1 ELSE 2 * Spacing(x \div 2)

\* The number an exact result x >= 0 becomes: the nearest one, the even
\* mantissa on a tie, Infinity beyond MaxFinite.
Round(x) ==
    LET s == Spacing(x)
        q == x \div s
        r == x % s
        m == IF 2 * r < s THEN q
             ELSE IF 2 * r > s THEN q + 1
             ELSE IF q % 2 = 0 THEN q ELSE q + 1
    IN IF m * s > MaxFinite THEN PosInf ELSE Fin(m * s)

\* a - b and a * b for numbers a, b >= 0 with a >= b.
FSub(a, b) == IF a.k = "fin" THEN Round(a.n - b.n) ELSE a
FMul(a, b) == IF a.k = "fin" /\ b.k = "fin" THEN Round(a.n * b.n) ELSE PosInf

\* Twice a finite number, an integer.
Twice(x) == 2 * x.n + (IF x.half THEN 1 ELSE 0)

\* Math.floor, Math.max, Math.min on finite numbers.
Floor(x) == Fin(x.n)
MathMax(a, b) == IF Twice(a) >= Twice(b) THEN a ELSE b
MathMin(a, b) == IF Twice(a) <= Twice(b) THEN a ELSE b

\* x ?? d
NumberOr(x, d) == IF x.k = "undefined" THEN d ELSE x

\* normalizePagination of the student service.
normalizePagination(input) ==
    LET pageRaw == NumberOr(input.page, Fin(1))
        limitRaw == NumberOr(input.limit, Fin(20))
        page == IF pageRaw.k = "fin" THEN MathMax(Fin(1), Floor(pageRaw))
                ELSE Fin(1)
        limit == IF limitRaw.k = "fin"
                 THEN MathMin(Fin(100), MathMax(Fin(1), Floor(limitRaw)))
                 ELSE Fin(20)
    IN [page |-> page, limit |-> limit,
        skip |-> FMul(FSub(page, Fin(1)), limit)]

\* normalizePagination of the tutor service.
normalizePaginationTutor(input) ==
    LET pageRaw == NumberOr(input.page, Fin(1))
        limitRaw == NumberOr(input.limit, Fin(20))
        page == IF pageRaw.k = "fin" THEN MathMax(Fin(1), Floor(pageRaw))
                ELSE Fin(1)
        limit == IF limitRaw.k = "fin"
                 THEN MathMin(Fin(100), MathMax(Fin(1), Floor(limitRaw)))
                 ELSE Fin(20)
    IN [page |-> page, limit |-> limit,
        skip |-> FMul(FSub(page, Fin(1)), limit)]

\* normalizePagination of the admin service.
normalizePaginationAdmin(input) ==
    LET pageRaw == NumberOr(input.page, Fin(1))
        limitRaw == NumberOr(input.limit, Fin(20))
        page == IF pageRaw.k = "fin" THEN MathMax(Fin(1), Floor(pageRaw))
                ELSE Fin(1)
        limit == IF limitRaw.k = "fin"
                 THEN MathMin(Fin(100), MathMax(Fin(1), Floor(limitRaw)))
                 ELSE Fin(20)
    IN [page |-> page, limit |-> limit,
        skip |-> FMul(FSub(page, Fin(1)), limit)]

\* The page and limit values a caller passes: none, the non-finite ones,
\* negative, zero, fractional, ordinary, and large ones up to the largest
\* number.
PageInputs ==
    {NoNumber, NaN, PosInf, NegInf, Fin(-3), Fin(0), FinHalf(0), Fin(1),
     FinHalf(2), Fin(7), Fin(MaxSafe), Fin(MaxSafe + 2), Fin(MaxFinite)}
LimitInputs ==
    {NoNumber, NaN, PosInf, NegInf, Fin(-5), Fin(0), FinHalf(0), Fin(1),
     Fin(20), FinHalf(99), Fin(100), Fin(101), Fin(MaxFinite)}

PaginationCopies == {"student", "tutor", "admin"}

\* A service is called with { page, limit }.
StartPaginate(p) ==
    /\ CanStart(p)
    /\ \E pg \in PageInputs, lm \in LimitInputs, c \in PaginationCopies :
         Begin(p, [Idle EXCEPT !.op = "normalizePagination",
                               !.query = [kind |-> c, page |-> pg,
                                          limit |-> lm],
                               !.pc = "paginate"])
    /\ UNCHANGED store

\* The service's copy of normalizePagination returns.
Paginate(p) ==
    /\ req[p].pc = "paginate"
    /\ LET in == req[p].query
           r == IF in.kind = "student" THEN normalizePagination(in)
                ELSE IF in.kind = "tutor" THEN normalizePaginationTutor(in)
                ELSE normalizePaginationAdmin(in)
       IN req' = [req EXCEPT ![p].pc = "done", ![p].res = Success(200),
                             ![p].out = [kind |-> "pagination", page |-> r.page,
                                         limit |-> r.limit, skip |-> r.skip]]
    /\ UNCHANGED store

NextPage == StartPaginate(1) \/ Paginate(1)

SpecPage == Init /\ [][NextPage]_vars

\* ------------------------------------------------------------------ lists

\* The numbers and dates of rows and queries, for comparing them.
NumVal(x) ==
    CASE x.v = "0" -> 0 [] x.v = "2" -> 2 [] x.v = "9" -> 9
      [] x.v = "500" -> 500 [] OTHER -> 0
DateOrd(x) ==
    CASE x.v = "d1" -> 1 [] x.v = "d2" -> 2 [] x.v = "d3" -> 3 [] OTHER -> 0

\* ...(typeof input.k === "boolean" ? { col: input.k } : {})
IfBoolean(x) == IF x.t = "boolean" THEN x ELSE Absent

\* { contains: q, mode: "insensitive" } on a text column.
ContainsInsensitive(text, q) ==
    <<text.v, q.v>> \in {<<"Math", "math">>, <<"Math", "Math">>,
                         <<"Physics", "physics">>}

\* input.search?.trim()
Trim(x) ==
    IF x.t # "string" THEN x
    ELSE Str(CASE x.v = " " -> "" [] x.v = " math " -> "math" [] OTHER -> x.v)

\* A range in which a missing side is taken for 0.
NumberRangeZeroed(min, max) ==
    [gte |-> IF min.t = "number" THEN min ELSE Num("0"),
     lte |-> IF max.t = "number" THEN max ELSE Num("0")]

\* { ...(typeof min === "number" ? { gte: min } : {}),
\*   ...(typeof max === "number" ? { lte: max } : {}) }
NumberRange(min, max) == [gte |-> IfNumber(min), lte |-> IfNumber(max)]
NoRange == [gte |-> Absent, lte |-> Absent]

\* { ...(from ? { gte: from } : {}), ...(to ? { lte: to } : {}) }
DateRange(from, to) == [gte |-> IfTruthy(from), lte |-> IfTruthy(to)]

InNumberRange(v, r) ==
    /\ r.gte # Absent => NumVal(v) >= NumVal(r.gte)
    /\ r.lte # Absent => NumVal(v) <= NumVal(r.lte)
InDateRange(v, r) ==
    /\ r.gte # Absent => DateOrd(v) >= DateOrd(r.gte)
    /\ r.lte # Absent => DateOrd(v) <= DateOrd(r.lte)

\* An equality condition of a where object: none when the key is not in it.
Eq(cond, v) == cond # Absent => v = cond

\* browseTutors: const where = { ... }
BrowseWhere(input) ==
    [categoryId |-> IfTruthy(input.categoryId),
     group |-> IfTruthy(input.group),
     isAvailable |-> IfBoolean(input.onlyAvailable),
     isFeatured |-> IfBoolean(input.onlyFeatured),
     pricePerDay |-> IF input.minPricePerDay.t = "number"
                        \/ input.maxPricePerDay.t = "number"
                     THEN NumberRange(input.minPricePerDay,
                                      input.maxPricePerDay)
                     ELSE NoRange,
     search |-> IfTruthy(Trim(input.search))]

\* user.name of the user that owns a profile.
UserName(u) == IF u = "u1" THEN Str("Ann") ELSE Str("Bob")

\* prisma.tutor.findMany({ where }) on one row.
TutorMatches(row, w) ==
    /\ Eq(w.categoryId, row.categoryId)
    /\ Eq(w.group, row.group)
    /\ Eq(w.isAvailable, row.isAvailable)
    /\ Eq(w.isFeatured, row.isFeatured)
    /\ InNumberRange(row.pricePerDay, w.pricePerDay)
    /\ w.search # Absent =>
         \/ ContainsInsensitive(row.subject, w.search)
         \/ ContainsInsensitive(UserName(row.userId), w.search)

\* An include that takes the latest review only.
RatingsOfLatest(t) ==
    [r \in {x.reviewId : x \in {y \in reviews : y.tutorId = t /\
                \A z \in reviews : z.tutorId = t => z.reviewId <= y.reviewId}}
        |-> (CHOOSE y \in reviews : y.reviewId = r).rating]

\* The ratings of the reviews included with tutor t, as a bag: reviewId ->
\* rating.
RatingsOf(t) ==
    [r \in {x.reviewId : x \in {y \in reviews : y.tutorId = t}} |->
        (CHOOSE y \in reviews : y.reviewId = r).rating]

RECURSIVE SumOf(_)
SumOf(f) ==
    IF DOMAIN f = {} THEN 0
    ELSE LET k == CHOOSE k \in DOMAIN f : TRUE
         IN f[k] + SumOf([j \in DOMAIN f \ {k} |-> f[j]])

\* a / b as a fraction.
Ratio(a, b) == [num |-> a, den |-> b]

\* ratings.length ? ratings.reduce((a, b) => a + b, 0) / ratings.length : 0
AvgRating(ratings) ==
    IF Cardinality(DOMAIN ratings) # 0
    THEN Ratio(SumOf(ratings), Cardinality(DOMAIN ratings))
    ELSE Ratio(0, 1)

\* { ...rest, avgRating, reviewsCount: ratings.length }
TutorItem(t) ==
    [tutorId |-> t, avgRating |-> AvgRating(RatingsOf(t)),
     reviewsCount |-> Cardinality(DOMAIN RatingsOf(t))]

\* Math.ceil(total / limit) for total >= 0 and an integer limit >= 1.
Ceil(total, limit) == (total + limit - 1) \div limit

toPageMeta(page, limit, total) ==
    [page |-> page, limit |-> limit, total |-> total,
     totalPages |-> IF Ceil(total, limit.n) >= 1 THEN Ceil(total, limit.n)
                    ELSE 1]

\* How many of n matched rows findMany returns for a finite skip and take.
RowsReturned(n, skip, take) ==
    LET rest == IF skip.n < n THEN n - skip.n ELSE 0
    IN IF take.n < rest THEN take.n ELSE rest

\* prisma.$transaction([count, findMany]) names no isolation level, so the
\* two statements run at the level the database is configured with.  Under
\* READ COMMITTED, the default of PostgreSQL, each statement reads what is
\* committed when it starts; under REPEATABLE READ the second statement reads
\* what the first one did.  counted is the set the count statement matched,
\* now the set the where matches when findMany runs.
SecondStatementReads(counted, now) == {counted, now}

\* A list whose count statement matched the rows ids.
Counted(p, kind, ids) ==
    req' = [req EXCEPT ![p].pc = "list_rows",
                       ![p].out = [kind |-> kind, ids |-> ids,
                                   total |-> Cardinality(ids)]]

\* The findMany statement read the rows ids; the service returns
\* { meta: toPageMeta(page, limit, total), data }.
Listed(p, pg, ids, items) ==
    req' = [req EXCEPT ![p].pc = "done", ![p].res = Success(200),
                       ![p].sid = "none",
                       ![p].out = [kind |-> req[p].out.kind, ids |-> ids,
                                   total |-> req[p].out.total,
                                   rows |-> RowsReturned(Cardinality(ids),
                                                         pg.skip, pg.limit),
                                   meta |-> toPageMeta(pg.page, pg.limit,
                                                       req[p].out.total),
                                   items |-> items]]

\* The rows a list's where matches in the store as it is.
TutorsMatched(p) ==
    {t \in DOMAIN tutors :
        TutorMatches(tutors[t], BrowseWhere(req[p].query))}

\* browseTutors: prisma.tutor.count({ where }) of the transaction.
BrowseTutors(p) ==
    /\ req[p].pc = "browse_read"
    /\ Counted(p, "tutors", TutorsMatched(p))
    /\ UNCHANGED store

\* getTutorDetails: null for no such tutor.
GetTutorDetails(p) ==
    /\ req[p].pc = "details_read"
    /\ LET ids == {req[p].tid} \cap DOMAIN tutors
       IN req' = [req EXCEPT ![p].pc = "done", ![p].res = Success(200),
                             ![p].out = [kind |-> "tutors", ids |-> ids,
                                         total |-> Cardinality(ids),
                                         items |-> {TutorItem(t) : t \in ids}]]
    /\ UNCHANGED store

\* listMyBookings / listBookings: const where = { ... }; scope is the caller's
\* studentId, Absent for the admin list.
BookingWhere(scope, input) ==
    [scope |-> scope,
     status |-> IfTruthy(input.status),
     studentId |-> IfTruthy(input.studentId),
     tutorId |-> IfTruthy(input.tutorId),
     date |-> IF Truthy(input.from) \/ Truthy(input.to)
              THEN DateRange(input.from, input.to) ELSE NoRange]

BookingMatches(row, w) ==
    /\ Eq(w.scope, Str(row.studentId))
    /\ Eq(w.status, Str(row.status))
    /\ Eq(w.studentId, Str(row.studentId))
    /\ Eq(w.tutorId, Str(row.tutorId))
    /\ InDateRange(row.date, w.date)

\* listMyBookings: const student = await prisma.student.findUnique(...)
ListMyBookingsStudent(p) ==
    /\ req[p].pc = "myBookings_student"
    /\ LET s == FindStudentByUser(req[p].user) IN
       IF s = "none"
       THEN Throw(p, notFound(MsgNoStudent))
       ELSE req' = [req EXCEPT ![p].pc = "bookings_read", ![p].sid = s]
    /\ UNCHANGED store

\* listMyBookings and listBookings: the rows the where matches.
BookingsMatched(p) ==
    LET scope == IF req[p].op = "listMyBookings" THEN Str(req[p].sid)
                 ELSE Absent
        w == BookingWhere(scope, req[p].query)
    IN {b \in DOMAIN bookings : BookingMatches(bookings[b], w)}

\* prisma.booking.count({ where }) of the transaction.
ListBookings(p) ==
    /\ req[p].pc = "bookings_read"
    /\ Counted(p, "bookings", BookingsMatched(p))
    /\ UNCHANGED store

\* listUsers: const where = { ... }
UserWhere(input) ==
    [role |-> IfTruthy(input.role),
     status |-> IfTruthy(input.status),
     emailVerified |-> IfBoolean(input.emailVerified)]

UserMatches(row, w) ==
    /\ Eq(w.role, Str(row.role))
    /\ Eq(w.status, Str(row.status))
    /\ Eq(w.emailVerified, Bool(row.emailVerified))

\* listUsers, from the transaction that reads to the returned list.
UsersMatched(p) ==
    {u \in DOMAIN users : UserMatches(users[u], UserWhere(req[p].query))}

\* prisma.user.count({ where }) of the transaction.
ListUsers(p) ==
    /\ req[p].pc = "users_read"
    /\ Counted(p, "users", UsersMatched(p))
    /\ UNCHANGED store

\* The findMany of a list's transaction with skip and take: limit, and the
\* return of the service.
ListRows(p) ==
    /\ req[p].pc = "list_rows"
    /\ LET op == req[p].op
           pg == IF op \in {"listUsers", "listBookings"}
                 THEN normalizePaginationAdmin(req[p].paging)
                 ELSE normalizePagination(req[p].paging)
           now == IF op = "browseTutors" THEN TutorsMatched(p)
                  ELSE IF op = "listUsers" THEN UsersMatched(p)
                  ELSE BookingsMatched(p)
       IN \E ids \in SecondStatementReads(req[p].out.ids, now) :
            Listed(p, pg, ids,
                   IF op = "browseTutors" THEN {TutorItem(t) : t \in ids}
                   ELSE {})
    /\ UNCHANGED store

\* The query of a browseTutors call: every key, Absent when not given.
BrowseQueries ==
    [kind : {"browse"},
     categoryId : {Absent, Str("c1")},
     group : {Absent, Str("SCIENCE")},
     onlyAvailable : {Absent, Bool(TRUE), Bool(FALSE)},
     onlyFeatured : {Absent, Bool(TRUE)},
     minPricePerDay : {Absent, Num("9"), Num("500")},
     maxPricePerDay : {Absent, Num("9")},
     search : {Absent, Str(" math "), Str(" ")}]

\* The query of listMyBookings and listBookings.
BookingQueries ==
    [kind : {"bookings"},
     status : {Absent, Str("COMPLETED")},
     studentId : {Absent, Str("s1")},
     tutorId : {Absent, Str("t2")},
     from : {Absent, Date("d2")},
     to : {Absent, Date("d2")}]

\* The query of listUsers.
UserQueries ==
    [kind : {"users"},
     role : {Absent, Str("TUTOR")},
     status : {Absent, Str("ACTIVE")},
     emailVerified : {Absent, Bool(TRUE), Bool(FALSE)}]

\* GET /tutors
StartBrowseTutors(p) ==
    /\ CanStart(p)
    /\ \E q \in BrowseQueries :
         Begin(p, [Idle EXCEPT !.op = "browseTutors", !.query = q,
                               !.pc = "browse_read"])
    /\ UNCHANGED store

\* GET /tutors/:id
StartGetTutorDetails(p) ==
    /\ CanStart(p)
    /\ \E t \in TutorIds \cup {"t9"} :
         Begin(p, [Idle EXCEPT !.op = "getTutorDetails", !.tid = t,
                               !.pc = "details_read"])
    /\ UNCHANGED store

\* GET /bookings by user u; the service takes status, from and to only.
StartListMyBookings(p) ==
    /\ CanStart(p)
    /\ \E u \in DOMAIN users \cup {"u9"},
          q \in {x \in BookingQueries :
                    x.studentId = Absent /\ x.tutorId = Absent} :
         Begin(p, [Idle EXCEPT !.op = "listMyBookings", !.user = u,
                               !.query = q, !.pc = "myBookings_student"])
    /\ UNCHANGED store

\* GET /admin/bookings
StartListBookings(p) ==
    /\ CanStart(p)
    /\ \E q \in BookingQueries :
         Begin(p, [Idle EXCEPT !.op = "listBookings", !.query = q,
                               !.pc = "bookings_read"])
    /\ UNCHANGED store

\* GET /admin/users
StartListUsers(p) ==
    /\ CanStart(p)
    /\ \E q \in UserQueries :
         Begin(p, [Idle EXCEPT !.op = "listUsers", !.query = q,
                               !.pc = "users_read"])
    /\ UNCHANGED store

\* The reviews a store starts with: none, or one of rating 2 on booking 2.
SeedReviews ==
    {{}, {[reviewId |-> 1, bookingId |-> 2, studentId |-> "s2",
           tutorId |-> "t2", rating |-> 2]}}

\* A store with two users, their profiles, three bookings and the reviews R.
InitList ==
    /\ users = [u \in Users |->
                  IF u = "u1" THEN SeedUser
                  ELSE [role |-> "TUTOR", status |-> "SUSPENDED",
                        emailVerified |-> FALSE]]
    /\ students = [s \in StudentIds |->
                     StudentRow(CHOOSE u \in Users : StudentIdOf(u) = s,
                                SeedStudentBody)]
    /\ tutors = [t \in TutorIds |->
                   IF t = "t1"
                   THEN TutorRow("u1", SeedTutorBody)
                   ELSE [TutorRow("u2", SeedTutorBody)
                         EXCEPT !.subject = Str("Physics"),
                                !.group = Str("HUMANITIES"),
                                !.categoryId = Str("c2"),
                                !.pricePerDay = Num("9"),
                                !.isAvailable = Bool(FALSE),
                                !.isFeatured = Bool(TRUE)]]
    /\ categories = [c \in CategoryIds |-> SeedCategory(c)]
    /\ bookings = [b \in 1..3 |->
                     CASE b = 1 -> [studentId |-> "s1", tutorId |-> "t2",
                                    status |-> "COMPLETED",
                                    date |-> Date("d1")]
                       [] b = 2 -> [studentId |-> "s2", tutorId |-> "t2",
                                    status |-> "COMPLETED",
                                    date |-> Date("d2")]
                       [] b = 3 -> [studentId |-> "s1", tutorId |-> "t1",
                                    status |-> "CONFIRMED",
                                    date |-> Date("d3")]]
    /\ reviews \in SeedReviews
    /\ nextBookingId = 4
    /\ nextReviewId = Cardinality(reviews) + 1
    /\ req = [p \in Slots |-> Idle]

\* One request at a time: a list, a tutor's details, a review or the removal
\* of one.
NextList ==
    \/ StartBrowseTutors(1) \/ BrowseTutors(1) \/ ListRows(1)
    \/ StartGetTutorDetails(1) \/ GetTutorDetails(1)
    \/ StartListMyBookings(1) \/ ListMyBookingsStudent(1)
    \/ StartListBookings(1) \/ ListBookings(1)
    \/ StartListUsers(1) \/ ListUsers(1)
    \/ StartReview(1) \/ ReviewStudent(1) \/ ReviewFind(1) \/ ReviewCreate(1)
    \/ StartDeleteReview(1) \/ DeleteReview(1)
    \/ Collect(1)

SpecList == InitList /\ [][NextList]_vars

\* ------------------------------------------------------------------ tutor service: own profile

\* reviews: { orderBy: { createdAt: "desc" }, take: 5 }
ProfileReviewsTake == 5

\* The ratings of the n latest reviews of tutor t; reviewIds grow with
\* createdAt.
LatestRatingsOf(t, n) ==
    LET all == RatingsOf(t)
        latest == {r \in DOMAIN all :
                     Cardinality({x \in DOMAIN all : x > r}) < n}
    IN [r \in latest |-> all[r]]

\* getMyTutorProfile: { ...tutor, avgRating, reviewsCount: ratings.length }
\* over the reviews included with the tutor.
MyTutorItem(t) ==
    LET ratings == LatestRatingsOf(t, ProfileReviewsTake)
    IN [tutorId |-> t, avgRating |-> AvgRating(ratings),
        reviewsCount |-> Cardinality(DOMAIN ratings)]

\* getMyTutorProfile, from the findUnique to the returned profile, null for a
\* user without one.
GetMyTutorProfile(p) ==
    /\ req[p].pc = "myTutor_read"
    /\ LET ids == {FindTutorByUser(req[p].user)} \cap DOMAIN tutors
       IN req' = [req EXCEPT ![p].pc = "done", ![p].res = Success(200),
                             ![p].out = [kind |-> "tutors", ids |-> ids,
                                         total |-> Cardinality(ids),
                                         items |-> {MyTutorItem(t) : t \in ids}]]
    /\ UNCHANGED store

\* GET /tutor/profile by user u
StartGetMyTutorProfile(p) ==
    /\ CanStart(p)
    /\ \E u \in DOMAIN users \cup {"u9"} :
         Begin(p, [Idle EXCEPT !.op = "getMyTutorProfile", !.user = u,
                               !.pc = "myTutor_read"])
    /\ UNCHANGED store

\* The reviews a tutor starts with, at most.
SeededReviews == 6

\* A store in which student s1 had SeededReviews completed sessions with
\* tutor t2 and reviewed the first k of them, each with rating 1 or 5.
InitRatings ==
    /\ users = [u \in Users |-> SeedUser]
    /\ students = [s \in StudentIds |->
                     StudentRow(CHOOSE u \in Users : StudentIdOf(u) = s,
                                SeedStudentBody)]
    /\ tutors = [t \in TutorIds |->
                   TutorRow(CHOOSE u \in Users : TutorIdOf(u) = t,
                            SeedTutorBody)]
    /\ categories = [c \in CategoryIds |-> SeedCategory(c)]
    /\ bookings = [b \in 1..SeededReviews |->
                     [studentId |-> "s1", tutorId |-> "t2",
                      status |-> "COMPLETED", date |-> Date("d1")]]
    /\ \E k \in 0..SeededReviews :
         \E f \in [1..k -> {1, 5}] :
            /\ reviews = {[reviewId |-> i, bookingId |-> i,
                           studentId |-> "s1", tutorId |-> "t2",
                           rating |-> f[i]] : i \in 1..k}
            /\ nextReviewId = k + 1
    /\ nextBookingId = SeededReviews + 1
    /\ req = [p \in Slots |-> Idle]

\* One read at a time of a tutor's ratings, by the tutor, by its id and in
\* the list, and an admin deleting reviews.
NextRatings ==
    \/ StartGetMyTutorProfile(1) \/ GetMyTutorProfile(1)
    \/ StartGetTutorDetails(1) \/ GetTutorDetails(1)
    \/ StartBrowseTutors(1) \/ BrowseTutors(1) \/ ListRows(1)
    \/ StartDeleteReview(1) \/ DeleteReview(1)
    \/ Collect(1)

SpecRatings == InitRatings /\ [][NextRatings]_vars

\* ------------------------------------------------------------------ one booking, one session

\* getMyBookingById: const student = await prisma.student.findUnique(...)
GetMyBookingStudent(p) ==
    /\ req[p].pc = "myBooking_student"
    /\ LET s == FindStudentByUser(req[p].user) IN
       IF s = "none"
       THEN Throw(p, notFound(MsgNoStudent))
       ELSE req' = [req EXCEPT ![p].pc = "myBooking_find", ![p].sid = s]
    /\ UNCHANGED store

\* The controller's res.json({ success: true, data }) for the row findFirst
\* returned, null when there is none.
Found(p, b) ==
    req' = [req EXCEPT ![p].pc = "done", ![p].res = Success(200),
                       ![p].sid = "none",
                       ![p].out = [kind |-> "booking",
                                   ids |-> IF b.found THEN {b.bookingId}
                                           ELSE {}]]

\* getMyBookingById: return prisma.booking.findFirst(...)
GetMyBookingById(p) ==
    /\ req[p].pc = "myBooking_find"
    /\ Found(p, FindBookingOfStudent(req[p].bid, req[p].sid))
    /\ UNCHANGED store

\* getMySessionById: const tutor = await prisma.tutor.findUnique(...)
GetMySessionTutor(p) ==
    /\ req[p].pc = "mySession_tutor"
    /\ LET t == FindTutorByUser(req[p].user) IN
       IF t = "none"
       THEN Throw(p, notFound(MsgNoTutorProfile))
       ELSE req' = [req EXCEPT ![p].pc = "mySession_find", ![p].tid = t]
    /\ UNCHANGED store

\* getMySessionById: return prisma.booking.findFirst(...)
GetMySessionById(p) ==
    /\ req[p].pc = "mySession_find"
    /\ Found(p, FindBookingOfTutor(req[p].bid, req[p].tid))
    /\ UNCHANGED store

\* GET /bookings/:id by user u
StartGetMyBooking(p) ==
    /\ CanStart(p)
    /\ \E u \in DOMAIN users, b \in 1..MaxBookings :
         Begin(p, [Idle EXCEPT !.op = "getMyBookingById", !.user = u,
                               !.bid = b, !.pc = "myBooking_student"])
    /\ UNCHANGED store

\* GET /sessions/:id by user u
StartGetMySession(p) ==
    /\ CanStart(p)
    /\ \E u \in DOMAIN users, b \in 1..MaxBookings :
         Begin(p, [Idle EXCEPT !.op = "getMySessionById", !.user = u,
                               !.bid = b, !.pc = "mySession_tutor"])
    /\ UNCHANGED store

\* The booking lifecycle with the reads of one booking and one session.
NextOwner ==
    \/ Next
    \/ \E p \in Slots :
        \/ StartGetMyBooking(p) \/ GetMyBookingStudent(p)
        \/ GetMyBookingById(p)
        \/ StartGetMySession(p) \/ GetMySessionTutor(p)
        \/ GetMySessionById(p)

SpecOwner == Init /\ [][NextOwner]_vars

\* ------------------------------------------------------------------ pages while the store changes

\* The { page, limit } of a paged call: the defaults, or page 2 of pages of
\* one row.
PagingInputs == [page : {NoNumber, Fin(2)}, limit : {NoNumber, Fin(1)}]

NoFilter(kind) ==
    IF kind = "users"
    THEN [kind |-> "users", role |-> Absent, status |-> Absent,
          emailVerified |-> Absent]
    ELSE [kind |-> "bookings", status |-> Absent, studentId |-> Absent,
          tutorId |-> Absent, from |-> Absent, to |-> Absent]

\* GET /admin/users?page=&limit=
StartListUsersPage(p) ==
    /\ CanStart(p)
    /\ \E pg \in PagingInputs :
         Begin(p, [Idle EXCEPT !.op = "listUsers", !.query = NoFilter("users"),
                               !.paging = pg, !.pc = "users_read"])
    /\ UNCHANGED store

\* GET /bookings?page=&limit= by user u
StartListMyBookingsPage(p) ==
    /\ CanStart(p)
    /\ \E u \in DOMAIN users, pg \in PagingInputs :
         Begin(p, [Idle EXCEPT !.op = "listMyBookings", !.user = u,
                               !.query = NoFilter("bookings"),
                               !.paging = pg, !.pc = "myBookings_student"])
    /\ UNCHANGED store

\* Paged lists of users and bookings while a booking is created and users
\* are deleted.
NextSnapshot ==
    \E p \in Slots :
        \/ StartListUsersPage(p) \/ ListUsers(p)
        \/ StartListMyBookingsPage(p) \/ ListMyBookingsStudent(p)
        \/ ListBookings(p)
        \/ ListRows(p)
        \/ StartBook(p) \/ BookStudent(p) \/ BookTutor(p) \/ BookCreate(p)
        \/ StartDeleteUser(p) \/ DeleteUserFind(p) \/ DeleteUserDelete(p)
        \/ Collect(p)

SpecSnapshot == Init /\ [][NextSnapshot]_vars

\* ------------------------------------------------------------------ errors to responses

\* setTutorFeatured (controller): the checks on the request before the
\* service is called.
SetTutorFeaturedCheck(p) ==
    /\ req[p].pc = "featured_check"
    /\ IF req[p].tid = ""
       THEN Throw(p, badRequest("tutorId is required."))
       ELSE IF req[p].body["isFeatured"].t # "boolean"
       THEN Throw(p, badRequest("isFeatured must be boolean."))
       ELSE Goto(p, "featured_update")
    /\ UNCHANGED store

\* setTutorFeatured (service): return prisma.tutor.update(...)
SetTutorFeaturedUpdate(p) ==
    /\ req[p].pc = "featured_update"
    /\ IF req[p].tid \in DOMAIN tutors
       THEN /\ tutors' = [tutors EXCEPT ![req[p].tid].isFeatured =
                                            req[p].body["isFeatured"]]
            /\ Finish(p, Success(200))
       ELSE /\ Throw(p, PrismaError("P2025"))
            /\ UNCHANGED tutors
    /\ UNCHANGED <<users, students, categories, bookings, reviews,
                   nextBookingId, nextReviewId>>

\* PATCH /admin/tutors/:id/featured
StartSetTutorFeatured(p) ==
    /\ CanStart(p)
    /\ \E t \in TutorIds, f \in {Bool(TRUE), Str("yes"), Absent} :
         Begin(p, [Idle EXCEPT !.op = "setTutorFeatured", !.tid = t,
                               !.body = Body([isFeatured |-> f]),
                               !.pc = "featured_check"])
    /\ UNCHANGED store

\* Category and tutor profile writes with setTutorFeatured: handlers that throw
\* every kind of error.
NextError ==
    \/ NextCategory
    \/ \E p \in Slots :
        \/ StartSetTutorFeatured(p) \/ SetTutorFeaturedCheck(p)
        \/ SetTutorFeaturedUpdate(p)

SpecError == InitCategory /\ [][NextError]_vars

\* ------------------------------------------------------------------ required input

\* createBooking (controller): the payload it hands to createMyBooking.
BookingPayload(body) ==
    [body EXCEPT !["date"] = Coalesce(toDate(body["date"]), body["date"]),
                 !["time"] = Coalesce(toDate(body["time"]), body["time"])]

\* The bodies of POST /bookings: each required field given, left out or of
\* the wrong kind.
BookingBodies ==
    {Body([date |-> d, time |-> t, duration |-> n]) :
        d \in {Absent, Str("d1"), Str("soon")}, t \in {Absent, Str("d1")},
        n \in {Absent, Num("2"), Str("2")}}

\* POST /bookings by user u: tutorId a tutor's or not in the body ("none").
StartBookInput(p) ==
    /\ CanStart(p)
    /\ nextBookingId + BookingsInFlight <= MaxBookings
    /\ \E u \in DOMAIN users, t \in TutorIds \cup {"none"},
          b \in BookingBodies :
         Begin(p, [Idle EXCEPT !.op = "createMyBooking", !.user = u,
                               !.tid = t, !.body = BookingPayload(b),
                               !.pc = "book_student"])
    /\ UNCHANGED store

\* POST /reviews by user u: bookingId and rating given or not in the body (0).
StartReviewInput(p) ==
    /\ CanStart(p)
    /\ nextReviewId + ReviewsInFlight <= MaxReviews
    /\ \E u \in DOMAIN users, b \in 0..MaxBookings, r \in RatingInputs \cup {0} :
         Begin(p, [Idle EXCEPT !.op = "createMyReview", !.user = u,
                               !.bid = b, !.rating = r,
                               !.pc = "review_student"])
    /\ UNCHANGED store

\* One request at a time, with or without its required input: a booking, its
\* completion, a review, a student profile.
NextInput ==
    \/ StartBookInput(1) \/ BookStudent(1) \/ BookTutor(1) \/ BookCreate(1)
    \/ StartComplete(1) \/ CompleteTutor(1) \/ CompleteFind(1)
    \/ CompleteUpdate(1)
    \/ StartReviewInput(1) \/ ReviewStudent(1) \/ ReviewFind(1)
    \/ ReviewCreate(1)
    \/ StartUpsertStudent(1) \/ UpsertStudent(1)
    \/ Collect(1)

SpecInput == Init /\ [][NextInput]_vars

\* ------------------------------------------------------------------ admin service: users

\* setUserRole / setUserStatus (controller): the checks on the request before
\* the service is called; field is "role" or "status".
SetUserFieldCheck(p, field) ==
    /\ req[p].pc = "setUser_check" /\ req[p].cid = field
    /\ IF req[p].target = ""
       THEN Throw(p, badRequest("userId is required."))
       ELSE IF req[p].body[field].t # "string"
       THEN Throw(p, badRequest(field \o " is required."))
       ELSE Goto(p, "setUser_update")
    /\ UNCHANGED store

\* setUserRole: return prisma.user.update({ where: { id }, data: { role } });
\* the column is text and takes the string it is given.
SetUserRole(p) ==
    /\ req[p].pc = "setUser_update" /\ req[p].cid = "role"
    /\ IF req[p].target \in DOMAIN users
       THEN /\ users' = [users EXCEPT
                           ![req[p].target].role = req[p].body["role"].v]
            /\ Finish(p, Success(200))
       ELSE /\ Throw(p, PrismaError("P2025"))
            /\ UNCHANGED users
    /\ UNCHANGED <<students, tutors, categories, bookings, reviews,
                   nextBookingId, nextReviewId>>

\* setUserStatus: return prisma.user.update({ where: { id }, data: { status } })
SetUserStatus(p) ==
    /\ req[p].pc = "setUser_update" /\ req[p].cid = "status"
    /\ IF req[p].target \in DOMAIN users
       THEN /\ users' = [users EXCEPT
                           ![req[p].target].status = req[p].body["status"].v]
            /\ Finish(p, Success(200))
       ELSE /\ Throw(p, PrismaError("P2025"))
            /\ UNCHANGED users
    /\ UNCHANGED <<students, tutors, categories, bookings, reviews,
                   nextBookingId, nextReviewId>>

\* The values an admin passes as role and as status.
RoleInputs == {Absent, Str("TUTOR"), Str("SUPERUSER")}
StatusInputs == {Absent, Str("SUSPENDED"), Str("ACTIVE"), Str("BANNED")}

\* PATCH /admin/users/:id/role and PATCH /admin/users/:id/status
StartSetUserRole(p) ==
    /\ CanStart(p)
    /\ \E u \in Users, r \in RoleInputs :
         Begin(p, [Idle EXCEPT !.op = "setUserRole", !.target = u,
                               !.cid = "role", !.body = Body([role |-> r]),
                               !.pc = "setUser_check"])
    /\ UNCHANGED store
StartSetUserStatus(p) ==
    /\ CanStart(p)
    /\ \E u \in Users, x \in StatusInputs :
         Begin(p, [Idle EXCEPT !.op = "setUserStatus", !.target = u,
                               !.cid = "status", !.body = Body([status |-> x]),
                               !.pc = "setUser_check"])
    /\ UNCHANGED store

\* One request at a time: an admin sets a role or a status, or a request
\* passes the gate.
NextUsers ==
    \/ StartSetUserRole(1) \/ SetUserFieldCheck(1, "role") \/ SetUserRole(1)
    \/ StartSetUserStatus(1) \/ SetUserFieldCheck(1, "status")
    \/ SetUserStatus(1)
    \/ StartGated(1) \/ RequireAuth(1) \/ RequireRole(1) \/ LegacyAuth(1)
    \/ Handler(1) \/ Collect(1)

SpecUsers == InitGate /\ [][NextUsers]_vars

\* ------------------------------------------------------------------ the featured flag

\* What a body gives the key isFeatured, which no student or tutor input has.
ExtraFeatured == {Absent, Bool(TRUE), Bool(FALSE)}

\* PUT /tutor/me, PATCH /tutor/me and PUT /tutor/availability by user u, with
\* isFeatured among the keys of the body.
StartTutorWriteExtra(p) ==
    /\ CanStart(p)
    /\ \E u \in DOMAIN users, f \in ExtraFeatured :
         \/ Begin(p, [Idle EXCEPT
                        !.op = "upsertMyTutorProfile", !.user = u,
                        !.body = [SeedTutorBody EXCEPT
                                     !["subject"] = Str("new"),
                                     !["isFeatured"] = f],
                        !.pc = "upsertTutor_category"])
         \/ \E c \in {Absent, Str("c2")} :
              Begin(p, [Idle EXCEPT
                          !.op = "updateMyTutorProfile", !.user = u,
                          !.body = Body([bio |-> Str("new"), categoryId |-> c,
                                         isFeatured |-> f]),
                          !.pc = "updateTutor_find"])
         \/ \E a \in BOOLEAN :
              Begin(p, [Idle EXCEPT
                          !.op = "setMyAvailability", !.user = u,
                          !.body = AvailabilityPayload(
                                      Body([isAvailable |-> Bool(a),
                                            isFeatured |-> f])),
                          !.pc = "avail_find"])
    /\ UNCHANGED store

\* Every user a student, u2 a tutor, featured or not; u1 has no tutor profile.
InitFeatured ==
    \E f \in BOOLEAN :
        /\ users = [u \in Users |-> SeedUser]
        /\ students = [s \in StudentIds |->
                         StudentRow(CHOOSE u \in Users : StudentIdOf(u) = s,
                                    SeedStudentBody)]
        /\ tutors = [t \in {TutorIdOf("u2")} |->
                       [TutorRow("u2", SeedTutorBody)
                        EXCEPT !.isFeatured = Bool(f)]]
        /\ categories = [c \in CategoryIds |-> SeedCategory(c)]
        /\ bookings = [b \in {} |-> 0]
        /\ reviews = {}
        /\ nextBookingId = 1
        /\ nextReviewId = 1
        /\ req = [p \in Slots |-> Idle]

\* One request at a time: the student and tutor operations and
\* setTutorFeatured.
NextFeatured ==
    \/ StartTutorWriteExtra(1)
    \/ UpsertTutorCategory(1) \/ UpsertTutorWrite(1)
    \/ UpdateTutorFind(1) \/ UpdateTutorCategory(1) \/ UpdateTutorUpdate(1)
    \/ AvailFind(1) \/ AvailUpdate(1)
    \/ StartBook(1) \/ BookStudent(1) \/ BookTutor(1) \/ BookCreate(1)
    \/ StartComplete(1) \/ CompleteTutor(1) \/ CompleteFind(1)
    \/ CompleteUpdate(1)
    \/ StartReview(1) \/ ReviewStudent(1) \/ ReviewFind(1) \/ ReviewCreate(1)
    \/ StartSetTutorFeatured(1) \/ SetTutorFeaturedCheck(1)
    \/ SetTutorFeaturedUpdate(1)
    \/ Collect(1)

SpecFeatured == InitFeatured /\ [][NextFeatured]_vars

\* ------------------------------------------------------------------ admin service: analytics

\* const topLimit = Math.min(20, Math.max(1, input.topTutorsLimit ?? 5))
TopLimit(input) ==
    MathMin(Fin(20), MathMax(Fin(1), NumberOr(input.topTutorsLimit, Fin(5))))

\* prisma.review.groupBy({ by: ["tutorId"], _avg: { rating }, _count }): one
\* group for every tutor that has a review.
ReviewGroup(t) ==
    [tutorId |-> t,
     avgRating |-> Ratio(SumOf(RatingsOf(t)), Cardinality(DOMAIN RatingsOf(t))),
     reviewsCount |-> Cardinality(DOMAIN RatingsOf(t))]
ReviewGroups == {ReviewGroup(t) : t \in {r.tutorId : r \in reviews}}

\* orderBy: [{ _avg: { rating: "desc" } }, { _count: { reviewId: "desc" } }]:
\* g may stand before h.
MayPrecede(g, h) ==
    \/ g.avgRating.num * h.avgRating.den > h.avgRating.num * g.avgRating.den
    \/ /\ g.avgRating.num * h.avgRating.den = h.avgRating.num * g.avgRating.den
       /\ g.reviewsCount >= h.reviewsCount

\* The orders in which the store can return the groups: it chooses among
\* groups the orderBy does not tell apart.
GroupOrders ==
    {q \in UNION {[1..n -> ReviewGroups] : n \in 0..Cardinality(ReviewGroups)} :
        /\ {q[i] : i \in DOMAIN q} = ReviewGroups
        /\ \A i, j \in DOMAIN q : i < j => MayPrecede(q[i], q[j])}

\* take: n
Take(q, n) == SubSeq(q, 1, IF n < Len(q) THEN n ELSE Len(q))

\* getAnalytics, as far as the leaderboard goes: take must be an integer.
GetAnalytics(p) ==
    /\ req[p].pc = "analytics_read"
    /\ LET topLimit == TopLimit(req[p].query) IN
       IF topLimit.half
       THEN Throw(p, ValidationError)
       ELSE \E q \in GroupOrders :
              req' = [req EXCEPT
                        ![p].pc = "done", ![p].res = Success(200),
                        ![p].out = [kind |-> "analytics", limit |-> topLimit,
                                    topTutors |-> Take(q, topLimit.n)]]
    /\ UNCHANGED store

\* The values of ?topTutorsLimit= that toNumber lets through, and none.
TopLimitInputs ==
    {NoNumber, Fin(-3), Fin(0), Fin(1), Fin(2), FinHalf(2), Fin(20), Fin(25)}

\* GET /admin/analytics
StartGetAnalytics(p) ==
    /\ CanStart(p)
    /\ \E n \in TopLimitInputs :
         Begin(p, [Idle EXCEPT !.op = "getAnalytics",
                               !.query = [kind |-> "analytics",
                                          topTutorsLimit |-> n],
                               !.pc = "analytics_read"])
    /\ UNCHANGED store

\* The reviews a store can hold on four completed bookings, two of each tutor.
ReviewSeeds ==
    SUBSET {[reviewId |-> 1, bookingId |-> 1, studentId |-> "s2",
             tutorId |-> "t1", rating |-> 5],
            [reviewId |-> 2, bookingId |-> 2, studentId |-> "s2",
             tutorId |-> "t1", rating |-> 2],
            [reviewId |-> 3, bookingId |-> 3, studentId |-> "s1",
             tutorId |-> "t2", rating |-> 5],
            [reviewId |-> 4, bookingId |-> 4, studentId |-> "s1",
             tutorId |-> "t2", rating |-> 5]}

InitAnalytics ==
    /\ users = [u \in Users |-> SeedUser]
    /\ students = [s \in StudentIds |->
                     StudentRow(CHOOSE u \in Users : StudentIdOf(u) = s,
                                SeedStudentBody)]
    /\ tutors = [t \in TutorIds |->
                   TutorRow(CHOOSE u \in Users : TutorIdOf(u) = t,
                            SeedTutorBody)]
    /\ categories = [c \in {"c1"} |-> SeedCategory(c)]
    /\ bookings = [b \in 1..4 |->
                     [studentId |-> IF b <= 2 THEN "s2" ELSE "s1",
                      tutorId |-> IF b <= 2 THEN "t1" ELSE "t2",
                      status |-> "COMPLETED"]]
    /\ reviews \in ReviewSeeds
    /\ nextBookingId = 5
    /\ nextReviewId = 5
    /\ req = [p \in Slots |-> Idle]

NextAnalytics == StartGetAnalytics(1) \/ GetAnalytics(1) \/ Collect(1)

SpecAnalytics == InitAnalytics /\ [][NextAnalytics]_vars

\* ------------------------------------------------------------------ claims

\* Slot p ends its handler in this step.
Ends(p) == req[p].pc \notin {"idle", "done"} /\ req'[p].pc = "done"

\* C1: a booking's status only ever moves CONFIRMED -> COMPLETED or
\* CONFIRMED -> CANCELLED: a COMPLETED or CANCELLED booking keeps its status
\* in every step, and a cancel or complete that finds the booking not
\* CONFIRMED answers 409 CONFLICT and leaves every booking as it was.
C1_StatusOneWay ==
    [][/\ \A b \in DOMAIN bookings :
            (b \in DOMAIN bookings' /\ bookings[b].status # "CONFIRMED")
                => bookings'[b].status = bookings[b].status
       /\ \A p \in Slots :
            (/\ req[p].pc \in {"cancel_find", "complete_find"}
             /\ req[p].bid \in DOMAIN bookings
             /\ bookings[req[p].bid].status # "CONFIRMED"
             /\ req[p].pc = "cancel_find"
                    => bookings[req[p].bid].studentId = req[p].sid
             /\ req[p].pc = "complete_find"
                    => bookings[req[p].bid].tutorId = req[p].tid
             /\ req'[p] # req[p])
                => /\ req'[p].res.status = 409
                   /\ req'[p].res.code = "CONFLICT"
                   /\ bookings' = bookings]_vars

\* C2: a cancelMyBooking and a markSessionCompleted on the same booking never
\* both succeed: each call's read of the status and its write are one unit.
C2_AtMostOneTransition ==
    \A p, q \in Slots :
        (/\ req[p].op = "cancelMyBooking" /\ Done(p)
         /\ req[q].op = "markSessionCompleted" /\ Done(q)
         /\ req[p].bid = req[q].bid)
            => ~(req[p].res.success /\ req[q].res.success)

\* C3: createMyReview succeeds only on a booking whose status it read as
\* COMPLETED; when the booking it reads is CONFIRMED or CANCELLED it answers
\* 409 CONFLICT, and no step of such a call adds a review row.
C3_ReviewOnlyCompleted ==
    [][/\ \A p \in Slots :
            (req[p].op = "createMyReview" /\ Ends(p) /\ req'[p].res.success)
                => /\ req[p].pc = "review_create"
                   /\ req[p].snap.status = "COMPLETED"
       /\ \A p \in Slots :
            (/\ req[p].pc = "review_find"
             /\ req[p].bid \in DOMAIN bookings
             /\ bookings[req[p].bid].studentId = req[p].sid
             /\ bookings[req[p].bid].status \in {"CONFIRMED", "CANCELLED"}
             /\ req'[p] # req[p])
                => /\ Ends(p)
                   /\ req'[p].res.status = 409
                   /\ req'[p].res.code = "CONFLICT"
                   /\ reviews' = reviews
       /\ (reviews' \ reviews # {})
            => \E p \in Slots :
                 /\ req[p].pc = "review_create"
                 /\ req[p].snap.status = "COMPLETED"
                 /\ Ends(p) /\ req'[p].res.status = 201]_vars

\* C3 witness: a review request was refused with 409 on a booking that is not
\* COMPLETED, and no review row exists.
C3_Witness ==
    \E p \in Slots :
        /\ req[p].op = "createMyReview" /\ Done(p)
        /\ req[p].res.status = 409
        /\ req[p].res.message = "You can only review a completed session."
        /\ req[p].bid \in DOMAIN bookings
        /\ bookings[req[p].bid].status \in {"CONFIRMED", "CANCELLED"}
        /\ reviews = {}

\* C4: every booking has at most one review row, in every reachable state.
C4_OneReviewPerBooking ==
    \A b \in 1..MaxBookings :
        Cardinality({r \in reviews : r.bookingId = b}) <= 1

\* C4 witness: two createMyReview calls raced on one booking; one created the
\* row and the store refused the other (P2002), so the booking has one row.
C4_Witness ==
    \E p, q \in Slots :
        /\ req[p].op = "createMyReview" /\ Done(p) /\ req[p].res.status = 201
        /\ req[q].op = "createMyReview" /\ Done(q)
        /\ req[q].res.message = "P2002"
        /\ req[p].bid = req[q].bid
        /\ Cardinality({r \in reviews : r.bookingId = req[p].bid}) = 1

\* C5: once a createMyReview of a student has succeeded for a booking, every
\* other createMyReview of that student for that booking that ends later
\* (issued later or running concurrently) answers 409.
C5_SecondReviewConflicts ==
    [][\A p, q \in Slots :
         (/\ p # q
          /\ req[p].op = "createMyReview" /\ Done(p) /\ req[p].res.success
          /\ req[q].op = "createMyReview" /\ Ends(q)
          /\ req[q].bid = req[p].bid /\ req[q].user = req[p].user)
            => req'[q].res.status = 409]_vars

\* C6: createMyBooking answers 404 when the caller has no student profile or
\* the tutor does not exist and 409 when the tutor it reads is not available;
\* when it succeeds exactly one CONFIRMED row of the caller's own student
\* profile and the requested tutor is added, when it fails no row is added,
\* and nothing else adds or changes a booking row.
C6_CreateBooking ==
    [][/\ \A p \in Slots :
            (req[p].pc = "book_student" /\ req'[p] # req[p]
             /\ FindStudentByUser(req[p].user) = "none")
                => Ends(p) /\ req'[p].res.status = 404
       /\ \A p \in Slots :
            (req[p].pc = "book_tutor" /\ req'[p] # req[p])
                => /\ req[p].tid \notin DOMAIN tutors
                        => Ends(p) /\ req'[p].res.status = 404
                   /\ (req[p].tid \in DOMAIN tutors
                       /\ tutors[req[p].tid].isAvailable # Bool(TRUE))
                        => /\ Ends(p) /\ req'[p].res.status = 409
                           /\ req'[p].res.message
                                = "Tutor is not available for booking."
       /\ \A p \in Slots :
            (req[p].op = "createMyBooking" /\ Ends(p))
                => IF req'[p].res.success
                   THEN /\ req'[p].res.status = 201
                        /\ \E nb \in (DOMAIN bookings') \ DOMAIN bookings :
                             /\ DOMAIN bookings' = DOMAIN bookings \cup {nb}
                             /\ bookings'[nb] =
                                  [studentId |->
                                       FindStudentByUser(req[p].user),
                                   tutorId |-> req[p].tid,
                                   status |-> "CONFIRMED"]
                             /\ req[p].tid \in DOMAIN tutors
                        /\ \A b \in DOMAIN bookings :
                             bookings'[b] = bookings[b]
                   ELSE bookings' = bookings
       /\ bookings' # bookings
            => \E p \in Slots : req[p].op = "createMyBooking" /\ Ends(p)
      ]_vars

\* C6 witness: a booking request succeeded and its row is in the store, and
\* another was refused because the tutor was not available.
C6_Witness ==
    \E p, q \in Slots :
        /\ req[p].op = "createMyBooking" /\ Done(p) /\ req[p].res.status = 201
        /\ req[p].bid \in DOMAIN bookings
        /\ bookings[req[p].bid].status = "CONFIRMED"
        /\ req[q].op = "createMyBooking" /\ Done(q) /\ req[q].res.status = 409

\* C7: no booking row is created for a tutor whose isAvailable is false in
\* the store, also by a request that read the tutor before the flag was
\* cleared; such a request answers 409.
C7_NoBookingWhenUnavailable ==
    [][\A p \in Slots :
         (/\ req[p].op = "createMyBooking" /\ Ends(p)
          /\ req[p].tid \in DOMAIN tutors
          /\ tutors[req[p].tid].isAvailable = Bool(FALSE)
          /\ req[p].pc \in {"book_tutor", "book_create"})
            => /\ req'[p].res.status = 409
               /\ req'[p].res.message = "Tutor is not available for booking."
               /\ bookings' = bookings]_vars

\* The gate let slot p's request through to the business handler.
Admitted(p) == req[p].op = "gated" /\ (req[p].pc = "handler" \/ req[p].auth.ran)
\* The gate refused slot p's request.
Refused(p) == req[p].op = "gated" /\ Done(p) /\ ~req[p].auth.ran

\* C8: in every gate variant a request reaches the handler only if its
\* session resolved, its user is neither SUSPENDED nor INACTIVE and has the
\* role of the route; a request without session is answered 401, a SUSPENDED
\* user 403 ACCOUNT_SUSPENDED, an INACTIVE user 403 ACCOUNT_INACTIVE, and an
\* active user with another role 403.
C8_GateDecision ==
    \A p \in Slots :
        /\ Admitted(p)
            => /\ req[p].auth.session = "user"
               /\ req[p].auth.user.status \notin {"SUSPENDED", "INACTIVE"}
               /\ req[p].auth.user.role = req[p].auth.role
        /\ (Refused(p) /\ req[p].auth.session = "none")
            => req[p].res.status = 401
        /\ (Refused(p) /\ req[p].auth.session = "user"
            /\ req[p].auth.user.status = "SUSPENDED")
            => req[p].res.status = 403 /\ req[p].res.code = "ACCOUNT_SUSPENDED"
        /\ (Refused(p) /\ req[p].auth.session = "user"
            /\ req[p].auth.user.status = "INACTIVE")
            => req[p].res.status = 403 /\ req[p].res.code = "ACCOUNT_INACTIVE"
        /\ (Refused(p) /\ req[p].auth.session = "user"
            /\ req[p].auth.user.status = "ACTIVE"
            /\ req[p].auth.user.role # req[p].auth.role)
            => req[p].res.status = 403

\* C9: on the role-protected routes (requireAuth, then requireRole) a request
\* whose resolved user has emailVerified = false never reaches the handler and
\* is answered 403.
C9_UnverifiedRejected ==
    \A p \in Slots :
        (/\ req[p].op = "gated" /\ req[p].auth.variant = "authThenRole"
         /\ req[p].auth.session = "user" /\ ~req[p].auth.user.emailVerified)
            => /\ ~Admitted(p)
               /\ Done(p) => req[p].res.status = 403

\* What a partial update does to one column, given the body's value for its
\* key: kept, cleared or overwritten.
ColumnEffect(op, body, k, old, new) ==
    /\ body[k] = Absent => new = old
    /\ (body[k] = NullV /\ k \in NullableColumns(op)) => new = NullV
    /\ body[k].t \notin {"absent", "null"} => new = body[k]

RowEffect(op, body, K, old, new) ==
    /\ DOMAIN new = DOMAIN old
    /\ \A f \in DOMAIN old :
         IF f \in K THEN ColumnEffect(op, body, f, old[f], new[f])
         ELSE new[f] = old[f]

\* C10: a partial profile update (updateMyStudentProfile,
\* updateMyTutorProfile) that succeeds changes the caller's row only, and in it
\* only the columns whose key the input carries: an absent key keeps the stored
\* value, an explicit null on a nullable column stores null, a present non-null
\* value of the column's type is stored; an update that fails changes no row.
C10_PartialUpdate ==
    [][\A p \in Slots :
         (req[p].op \in {"updateMyStudentProfile", "updateMyTutorProfile"}
          /\ Ends(p)) =>
            LET op == req[p].op
                body == req[p].body
                s == FindStudentByUser(req[p].user)
                t == FindTutorByUser(req[p].user)
            IN IF req'[p].res # Success(200)
               THEN students' = students /\ tutors' = tutors
               ELSE IF op = "updateMyStudentProfile"
               THEN /\ tutors' = tutors
                    /\ DOMAIN students' = DOMAIN students
                    /\ \A x \in DOMAIN students \ {s} :
                         students'[x] = students[x]
                    /\ RowEffect(op, body, StudentKeys, students[s],
                                 students'[s])
               ELSE /\ students' = students
                    /\ DOMAIN tutors' = DOMAIN tutors
                    /\ \A x \in DOMAIN tutors \ {t} : tutors'[x] = tutors[x]
                    /\ RowEffect(op, body, TutorKeys, tutors[t], tutors'[t])
      ]_vars

\* A student update has cleared profilePic with an explicit null, stored a new
\* class and kept the bio it did not mention.
C10_Witness ==
    \E p \in Slots :
        /\ Done(p) /\ req[p].res = Success(200)
        /\ req[p].op = "updateMyStudentProfile"
        /\ req[p].body["profilePic"] = NullV
        /\ req[p].body["class"] = Str("new")
        /\ req[p].body["bio"] = Absent
        /\ students[StudentIdOf("u1")].profilePic = NullV
        /\ students[StudentIdOf("u1")].class = Str("new")
        /\ students[StudentIdOf("u1")].bio = Str("old")

\* The request in slot p is at the lookup of its caller's profile and the
\* caller has none.
NoProfileCall(p) ==
    \/ /\ req[p].pc = "updateStudent_find"
       /\ FindStudentByUser(req[p].user) = "none"
    \/ /\ req[p].pc \in {"updateTutor_find", "avail_find"}
       /\ FindTutorByUser(req[p].user) = "none"

\* C11: a partial profile update or an availability toggle by a user who has
\* no profile answers 404 NOT_FOUND with the "Create your profile first."
\* message and changes nothing in the store; no step of such a request adds a
\* student or tutor row.
C11_NoProfileNotFound ==
    [][\A p \in Slots :
         /\ (NoProfileCall(p) /\ req'[p] # req[p]) =>
               /\ req'[p].pc = "done"
               /\ req'[p].res.status = 404
               /\ req'[p].res.code = "NOT_FOUND"
               /\ req'[p].res.message \in {MsgNoStudent, MsgNoTutorProfile}
               /\ UNCHANGED store
         /\ (req[p].op \in {"updateMyStudentProfile", "updateMyTutorProfile",
                            "setMyAvailability"} /\ req'[p] # req[p]) =>
               /\ DOMAIN students' = DOMAIN students
               /\ DOMAIN tutors' = DOMAIN tutors
      ]_vars

\* A toggle by u1, who has no tutor profile, has been answered 404 and
\* u1 still has no tutor row.
C11_Witness ==
    \E p \in Slots :
        /\ Done(p) /\ req[p].op = "setMyAvailability" /\ req[p].user = "u1"
        /\ req[p].res.status = 404
        /\ FindTutorByUser("u1") = "none"

\* What the toggle does to one window column, given the body's value for its
\* key: kept, cleared or overwritten with the date.
WindowEffect(body, k, old, new) ==
    /\ body[k] = Absent => new = old
    /\ body[k] = NullV => new = NullV
    /\ (body[k].t = "string" /\ body[k].v \in DateStrings)
            => new = Date(body[k].v)

\* C13: a tutor's PUT /availability that succeeds stores the isAvailable it was
\* given, keeps availableFrom (availableTo) when the body does not contain the
\* key, clears it on an explicit null and overwrites it with a present value.
C13_TogglePresence ==
    [][\A p \in Slots :
         (/\ req[p].op = "setMyAvailability" /\ Ends(p)
          /\ req'[p].res = Success(200)) =>
            LET t == FindTutorByUser(req[p].user)
                body == req[p].body
            IN /\ tutors'[t].isAvailable = body["isAvailable"]
               /\ WindowEffect(body, "availableFrom", tutors[t].availableFrom,
                               tutors'[t].availableFrom)
               /\ WindowEffect(body, "availableTo", tutors[t].availableTo,
                               tutors'[t].availableTo)
      ]_vars

\* C12: after a profile upsert that succeeds the caller's profile holds what
\* the create branch writes for the input, whether or not a profile existed
\* before: the listed columns as given, an optional column absent from the
\* input at its default (null, group NONE for students).
C12_UpsertSameResult ==
    [][\A p \in Slots :
         (/\ req[p].op \in {"upsertMyStudentProfile", "upsertMyTutorProfile"}
          /\ Ends(p) /\ req'[p].res = Success(200)) =>
            LET u == req[p].user
                body == req[p].body
            IN IF req[p].op = "upsertMyStudentProfile"
               THEN students'[StudentIdOf(u)] = StudentRow(u, body)
               ELSE \A f \in TutorKeys \cup {"userId"} :
                      tutors'[TutorIdOf(u)][f] = TutorRow(u, body)[f]
      ]_vars

\* C14: deleteCategory on a category that a tutor references answers 409
\* CATEGORY_IN_USE and leaves categories and tutors as they were; on an
\* existing category that no tutor references it succeeds and removes that
\* category and nothing else.
C14_DeleteCategory ==
    [][\A p \in Slots :
         (req[p].op = "deleteCategory" /\ req'[p] # req[p] /\ Running(p)) =>
            LET c == req[p].cid IN
            /\ (req[p].pc = "deleteCategory_count" /\ TutorCount(c) > 0) =>
                  /\ req'[p].pc = "done"
                  /\ req'[p].res.status = 409
                  /\ req'[p].res.code = "CATEGORY_IN_USE"
            /\ ~req'[p].res.success =>
                  categories' = categories /\ tutors' = tutors
            /\ (/\ req[p].pc = "deleteCategory_delete"
                /\ c \in DOMAIN categories /\ TutorCount(c) = 0) =>
                  /\ req'[p].res = Success(200)
                  /\ DOMAIN categories' = DOMAIN categories \ {c}
                  /\ \A x \in DOMAIN categories' :
                        categories'[x] = categories[x]
                  /\ UNCHANGED <<users, students, tutors, bookings, reviews>>
      ]_vars

\* A deleteCategory of c1 has been refused with CATEGORY_IN_USE while a tutor
\* references c1, and a deleteCategory has removed a category.
C14_Witness ==
    /\ \E p \in Slots :
          /\ Done(p) /\ req[p].op = "deleteCategory" /\ req[p].cid = "c1"
          /\ req[p].res.code = "CATEGORY_IN_USE"
          /\ TutorCount("c1") > 0
    /\ "c2" \notin DOMAIN categories

\* C15: a tutor profile write (upsertMyTutorProfile, or updateMyTutorProfile
\* with a categoryId) whose categoryId names no existing category answers 404
\* INVALID_CATEGORY and leaves the tutor rows as they were, at the existence
\* check and also at the write when the category went away in between.
C15_InvalidCategory ==
    [][\A p \in Slots :
         (/\ req[p].pc \in {"upsertTutor_category", "updateTutor_category",
                            "upsertTutor_upsert", "updateTutor_update"}
          /\ req[p].body["categoryId"].t = "string"
          /\ req[p].body["categoryId"].v \notin DOMAIN categories
          /\ req'[p] # req[p]) =>
            /\ req'[p].pc = "done"
            /\ req'[p].res.status = 404
            /\ req'[p].res.code = "INVALID_CATEGORY"
            /\ tutors' = tutors
      ]_vars

\* Every row references rows that exist.
Referenced ==
    /\ \A x \in DOMAIN students : students[x].userId \in DOMAIN users
    /\ \A x \in DOMAIN tutors : tutors[x].userId \in DOMAIN users
    /\ \A b \in DOMAIN bookings :
          /\ bookings[b].studentId \in DOMAIN students
          /\ bookings[b].tutorId \in DOMAIN tutors
    /\ \A r \in reviews :
          /\ r.bookingId \in DOMAIN bookings
          /\ r.studentId \in DOMAIN students
          /\ r.tutorId \in DOMAIN tutors

\* Nothing of user u is in the store.
Gone(u) ==
    /\ u \notin DOMAIN users
    /\ StudentsOfUser(u) = {} /\ TutorsOfUser(u) = {}

\* C16: in every state every booking references an existing student and
\* tutor and every review an existing booking, student and tutor; the step in
\* which deleteUserHard(u) succeeds on an existing user leaves no user u, no
\* profile of u and no booking or review of those profiles; deleteUserHard on
\* a user that does not exist answers without changing the store.
C16_DeleteUserCascade ==
    [][/\ Referenced /\ Referenced'
       /\ \A p \in Slots :
            /\ (req[p].pc = "deleteUser_delete" /\ Ends(p)
                /\ req'[p].res.success) =>
                  LET u == req[p].target
                      S == StudentsOfUser(u)
                      T == TutorsOfUser(u)
                  IN /\ Gone(u)'
                     /\ \A b \in DOMAIN bookings' :
                           /\ bookings'[b].studentId \notin S
                           /\ bookings'[b].tutorId \notin T
                     /\ \A r \in reviews' :
                           r.studentId \notin S /\ r.tutorId \notin T
                     /\ \A x \in DOMAIN users' : users'[x] = users[x]
                     /\ \A x \in DOMAIN students' : students'[x] = students[x]
                     /\ \A x \in DOMAIN tutors' : tutors'[x] = tutors[x]
            /\ (req[p].pc = "deleteUser_find"
                /\ req[p].target \notin DOMAIN users
                /\ req'[p] # req[p]) =>
                  /\ req'[p].res = Success(200)
                  /\ UNCHANGED store
      ]_vars

\* deleteUserHard has removed u1 while a review of u1's booking existed, and
\* the review and the booking are gone with it.
C16_Witness ==
    \E p \in Slots :
        /\ Done(p) /\ req[p].op = "deleteUserHard" /\ req[p].target = "u1"
        /\ req[p].res.success
        /\ "u1" \notin DOMAIN users
        /\ nextReviewId > 1
        /\ reviews = {} /\ DOMAIN bookings = {}
        /\ "u2" \in DOMAIN users

\* C17: for every page and limit, normalizePagination returns an integer
\* page >= 1, an integer limit in 1..100 and skip = (page - 1) * limit; an
\* absent or non-finite page gives 1, an absent or non-finite limit gives 20;
\* the three copies return the same for the same input.
C17_NormalizePagination ==
    \A p \in Slots :
        (req[p].op = "normalizePagination" /\ Done(p)) =>
            LET in == req[p].query
                out == req[p].out
            IN /\ out.page.k = "fin" /\ ~out.page.half /\ out.page.n >= 1
               /\ out.limit.k = "fin" /\ ~out.limit.half
               /\ out.limit.n \in 1..100
               /\ out.skip.k = "fin"
               /\ out.skip.n = (out.page.n - 1) * out.limit.n
               /\ in.page.k # "fin" => out.page = Fin(1)
               /\ in.limit.k # "fin" => out.limit = Fin(20)
               /\ normalizePagination(in) = normalizePaginationTutor(in)
               /\ normalizePagination(in) = normalizePaginationAdmin(in)

\* A filter is given when its key is in the input with a value other than the
\* empty string (a search: other than blanks).
Given(x) == x # Absent /\ x # Str("") /\ x # Str(" ")

\* The rows a list is to match: those of the caller's scope that satisfy every
\* filter that is given; a range bounds only the side that is given.
TutorsWanted(q) ==
    {t \in DOMAIN tutors :
        /\ Given(q.categoryId) => tutors[t].categoryId = q.categoryId
        /\ Given(q.group) => tutors[t].group = q.group
        /\ Given(q.onlyAvailable) => tutors[t].isAvailable = q.onlyAvailable
        /\ Given(q.onlyFeatured) => tutors[t].isFeatured = q.onlyFeatured
        /\ Given(q.minPricePerDay) =>
             NumVal(tutors[t].pricePerDay) >= NumVal(q.minPricePerDay)
        /\ Given(q.maxPricePerDay) =>
             NumVal(tutors[t].pricePerDay) <= NumVal(q.maxPricePerDay)
        /\ Given(q.search) =>
             <<tutors[t].subject.v, q.search.v>> \in {<<"Math", " math ">>}}
BookingsWanted(scope, q) ==
    {b \in DOMAIN bookings :
        /\ scope # "none" => bookings[b].studentId = scope
        /\ Given(q.status) => bookings[b].status = q.status.v
        /\ Given(q.studentId) => bookings[b].studentId = q.studentId.v
        /\ Given(q.tutorId) => bookings[b].tutorId = q.tutorId.v
        /\ Given(q.from) => DateOrd(bookings[b].date) >= DateOrd(q.from)
        /\ Given(q.to) => DateOrd(bookings[b].date) <= DateOrd(q.to)}
UsersWanted(q) ==
    {u \in DOMAIN users :
        /\ Given(q.role) => users[u].role = q.role.v
        /\ Given(q.status) => users[u].status = q.status.v
        /\ Given(q.emailVerified) =>
             users[u].emailVerified = (q.emailVerified = Bool(TRUE))}

AllAbsent(q) == \A k \in DOMAIN q \ {"kind"} : q[k] = Absent

ReviewsOfTutor(t) == {r \in reviews : r.tutorId = t}
RECURSIVE RatingSum(_)
RatingSum(S) ==
    IF S = {} THEN 0
    ELSE LET r == CHOOSE r \in S : TRUE IN r.rating + RatingSum(S \ {r})

\* C19: every tutor that browseTutors or getTutorDetails returns carries
\* reviewsCount = the number of its Review rows and avgRating = the sum of
\* their ratings divided by reviewsCount, 0 when there is none; a tutor whose
\* only review has rating 5 carries reviewsCount 1 and avgRating 5.
C19_AvgRating ==
    \A p \in Slots :
        (Done(p) /\ req[p].op \in {"browseTutors", "getTutorDetails"}) =>
            /\ {i.tutorId : i \in req[p].out.items} = req[p].out.ids
            /\ \A i \in req[p].out.items :
                 LET R == ReviewsOfTutor(i.tutorId) IN
                 /\ i.reviewsCount = Cardinality(R)
                 /\ i.avgRating.den > 0
                 /\ IF R = {} THEN i.avgRating.num = 0
                    ELSE i.avgRating.num * Cardinality(R)
                            = RatingSum(R) * i.avgRating.den
                 /\ (\E r \in R : R = {r} /\ r.rating = 5) =>
                        /\ i.reviewsCount = 1
                        /\ i.avgRating.num = 5 * i.avgRating.den

\* getTutorDetails answered for a tutor whose only review, of rating 5, was
\* created by createMyReview on a store without reviews.
C19_Witness ==
    /\ Done(1) /\ req[1].op = "getTutorDetails" /\ req[1].tid = "t2"
    /\ reviews = {[reviewId |-> 1, bookingId |-> 1, studentId |-> "s1",
                   tutorId |-> "t2", rating |-> 5]}
    /\ req[1].out.items = {[tutorId |-> "t2", reviewsCount |-> 1,
                            avgRating |-> Ratio(5, 1)]}

\* The one failure response an error is to get.
Mapped(err, res) ==
    /\ ~res.success
    /\ res.message = err.message
    /\ IF err.name = "HttpError"
       THEN /\ res.status = err.statusCode /\ res.code = err.code
            /\ <<res.status, res.code>> \in
                   {<<400, "BAD_REQUEST">>, <<401, "UNAUTHORIZED">>,
                    <<403, "FORBIDDEN">>, <<404, "NOT_FOUND">>,
                    <<409, "CONFLICT">>, <<404, "INVALID_CATEGORY">>,
                    <<409, "CATEGORY_IN_USE">>}
       ELSE res.status = 500 /\ res.code = "INTERNAL_SERVER_ERROR"

\* C20: the step in which a handler throws ends its request with the failure
\* response of the error - the HttpError's own status and code, 500
\* INTERNAL_SERVER_ERROR for any other error - and from then on the request
\* does nothing but leave: it is not run again, its response does not change
\* and it writes nothing.
C20_ErrorMapping ==
    [][\A p \in Slots :
          /\ req'[p].err # NoError =>
                /\ req'[p].pc = "done"
                /\ Mapped(req'[p].err, req'[p].res)
          /\ req[p].err # NoError =>
                \/ req'[p] = req[p]
                \/ req'[p] = Idle /\ store' = store]_vars

\* Answered requests whose handlers threw an HttpError with a custom code and
\* an error of the store client.
C20_Witness ==
    \E p, q \in Slots :
        /\ Done(p) /\ req[p].err = PrismaError("P2003")
        /\ req[p].res.status = 500
        /\ Done(q) /\ req[q].err.name = "HttpError"
        /\ req[q].res.status = 404 /\ req[q].res.code = "INVALID_CATEGORY"

\* A request whose required input is missing or malformed.
InputBad(r) ==
    \/ r.op = "createMyBooking" /\
          (r.tid = "none" \/ r.body["date"].t # "date"
             \/ r.body["time"].t # "date" \/ r.body["duration"].t # "number")
    \/ r.op = "createMyReview" /\ (r.bid = 0 \/ r.rating = 0)
    \/ r.op = "upsertMyStudentProfile" /\
          \E k \in {"class", "institute", "address", "phone"} :
              r.body[k].t # "string"

\* C21: the step that answers a request whose required input is missing or
\* malformed answers 400 BAD_REQUEST, and no step of such a request writes to
\* the store.
C21_BadRequest ==
    [][\A p \in Slots :
          (Running(p) /\ InputBad(req[p])) =>
              /\ store' = store
              /\ req'[p].pc = "done" =>
                    req'[p].res.status = 400 /\ req'[p].res.code = "BAD_REQUEST"]_vars

\* No POST /reviews without bookingId is answered 201 with a review created.
ReviewWithoutBookingIdRefused ==
    ~(Done(1) /\ req[1].op = "createMyReview" /\ req[1].bid = 0
        /\ req[1].res.status = 201 /\ reviews # {})

\* C22: every user's role is one of STUDENT, TUTOR, ADMIN and every user's
\* status one of ACTIVE, INACTIVE, SUSPENDED, and a handler behind
\* requireAuth / requireRole runs only for a user whose status is ACTIVE.
C22_RoleStatusDomain ==
    /\ \A u \in DOMAIN users :
         users[u].role \in UserRole /\ users[u].status \in UserStatus
    /\ \A p \in Slots :
         (req[p].auth.ran /\ req[p].auth.variant # "legacy") =>
             req[p].auth.user.status = "ACTIVE"

\* No handler behind requireAuth / requireRole runs for a user whose status
\* is the string BANNED.
GateStopsUnknownStatus ==
    \A p \in Slots :
        (req[p].auth.ran /\ req[p].auth.variant # "legacy") =>
            req[p].auth.user.status \notin {"BANNED"}

\* C23: a step changes isFeatured of an existing tutor only when it is the
\* write of setTutorFeatured on that tutor, and a tutor profile that a step
\* creates has isFeatured = false and isAvailable = true.
C23_FeaturedAdminOnly ==
    [][/\ \A t \in DOMAIN tutors \cap DOMAIN tutors' :
            tutors'[t].isFeatured # tutors[t].isFeatured =>
                \E p \in Slots :
                    /\ req[p].op = "setTutorFeatured" /\ req[p].tid = t
                    /\ req[p].pc = "featured_update" /\ req'[p].pc = "done"
       /\ \A t \in DOMAIN tutors' \ DOMAIN tutors :
            /\ tutors'[t].isFeatured = Bool(FALSE)
            /\ tutors'[t].isAvailable = Bool(TRUE)]_vars

\* updateMyTutorProfile with isFeatured: true in its body has succeeded on a
\* tutor that is not featured, and the tutor is still not featured.
C23_Witness ==
    /\ Done(1) /\ req[1].op = "updateMyTutorProfile" /\ req[1].user = "u2"
    /\ req[1].body["isFeatured"] = Bool(TRUE)
    /\ req[1].res.status = 200
    /\ tutors["t2"].bio = Str("new")
    /\ tutors["t2"].isFeatured = Bool(FALSE)

\* The entries of an answered getAnalytics are in order, at most the limit,
\* and carry the figures of their tutors' reviews.
LeaderboardOk(r) ==
    LET q == r.out.topTutors IN
    /\ Len(q) <= r.out.limit.n
    /\ Len(q) = (IF Cardinality({x.tutorId : x \in reviews}) < r.out.limit.n
                 THEN Cardinality({x.tutorId : x \in reviews})
                 ELSE r.out.limit.n)
    /\ \A i, j \in DOMAIN q : i < j =>
          /\ q[i].tutorId # q[j].tutorId
          /\ MayPrecede(q[i], q[j])
    /\ \A i \in DOMAIN q :
          LET R == ReviewsOfTutor(q[i].tutorId) IN
          /\ q[i].reviewsCount = Cardinality(R)
          /\ q[i].avgRating.num * Cardinality(R)
                = RatingSum(R) * q[i].avgRating.den
    \* no tutor left out stands before one that is in
    /\ \A t \in {x.tutorId : x \in reviews} \ {q[i].tutorId : i \in DOMAIN q} :
          \A i \in DOMAIN q : MayPrecede(q[i], ReviewGroup(t))

\* C24: getAnalytics answers with a leaderboard whose limit is 5 when none is
\* given and the given one clamped into 1..20 otherwise, of at most that many
\* entries, ordered by average rating descending and then by review count
\* descending, each entry with the reviewsCount and avgRating of its tutor's
\* reviews.
C24_TopTutors ==
    \A p \in Slots :
        (Done(p) /\ req[p].op = "getAnalytics") =>
            LET given == req[p].query.topTutorsLimit IN
            /\ req[p].res.status = 200
            /\ req[p].out.limit \in {Fin(n) : n \in 1..20}
            /\ given = NoNumber => req[p].out.limit = Fin(5)
            /\ (given # NoNumber /\ Twice(given) <= 2) =>
                   req[p].out.limit = Fin(1)
            /\ (given # NoNumber /\ Twice(given) >= 40) =>
                   req[p].out.limit = Fin(20)
            /\ LeaderboardOk(req[p])

\* The same for the calls whose limit is absent or an integer.
TopTutorsForIntegerLimit ==
    \A p \in Slots :
        (Done(p) /\ req[p].op = "getAnalytics"
           /\ ~req[p].query.topTutorsLimit.half) =>
            /\ req[p].res.status = 200
            /\ req[p].out.limit \in {Fin(n) : n \in 1..20}
            /\ LeaderboardOk(req[p])

\* C25: every review row belongs to a booking whose status is COMPLETED, in
\* every reachable state.
C25_ReviewOnCompleted ==
    \A r \in reviews :
        r.bookingId \in DOMAIN bookings =>
            bookings[r.bookingId].status = "COMPLETED"

\* C26: no step removes a category that a tutor references, and no step of a
\* deleteCategory removes a tutor row, a booking or a review.
C26_CategoryGuard ==
    [][/\ \A c \in DOMAIN categories \ DOMAIN categories' : TutorCount(c) = 0
       /\ \A p \in Slots :
            (req[p].op = "deleteCategory" /\ req'[p] # req[p]) =>
                /\ DOMAIN tutors' = DOMAIN tutors
                /\ bookings' = bookings
                /\ reviews' = reviews]_vars

\* What a list answered with, against what its count statement counted.
PageAgrees(out, pg) ==
    LET rest == IF out.total > pg.skip.n THEN out.total - pg.skip.n ELSE 0
        pages == (out.total + pg.limit.n - 1) \div pg.limit.n
    IN /\ out.rows = (IF pg.limit.n < rest THEN pg.limit.n ELSE rest)
       /\ out.meta.total = out.total
       /\ out.meta.totalPages = (IF pages > 1 THEN pages ELSE 1)

PagingOf(p) ==
    IF req[p].op \in {"listUsers", "listBookings"}
    THEN normalizePaginationAdmin(req[p].paging)
    ELSE normalizePagination(req[p].paging)

PagedLists == {"listMyBookings", "listBookings", "listUsers", "browseTutors"}

\* C27: in every paginated list result the total and the rows are of one
\* snapshot, also while bookings and users are created and deleted: the number
\* of rows returned is min(limit, max(0, total - skip)) and meta.totalPages is
\* max(1, ceil(total / limit)).
C27_PageSnapshot ==
    \A p \in Slots :
        (Done(p) /\ req[p].op \in PagedLists /\ req[p].out # NoOut) =>
            /\ req[p].out.total = Cardinality(req[p].out.ids)
            /\ PageAgrees(req[p].out, PagingOf(p))

\* With no other request between the two statements of the transaction the
\* page agrees with the total.
PageAgreesWhenAlone ==
    [][\A p \in Slots :
          (req[p].pc = "list_rows" /\ req'[p].pc = "done"
           /\ req[p].out.ids = req'[p].out.ids) =>
              PageAgrees(req'[p].out, PagingOf(p))]_vars

\* A gated request of the given composition that was answered without the
\* session provider failing.
Decided(p, variant) ==
    /\ Done(p) /\ req[p].op = "gated"
    /\ req[p].auth.variant = variant
    /\ req[p].auth.session \in {"user", "none"}

\* C28: for every session presence, account status and role, requireRole
\* alone and requireAuth followed by requireRole decide alike, with the same
\* status code and error code, and an accepted request has the session's user
\* and session attached in both compositions.
C28_RoleAloneAsChain ==
    \A p, q \in Slots :
        (/\ Decided(p, "roleOnly") /\ Decided(q, "authThenRole")
         /\ req[p].auth.cred = req[q].auth.cred
         /\ req[p].auth.role = req[q].auth.role) =>
            /\ req[p].auth.ran = req[q].auth.ran
            /\ req[p].res.status = req[q].res.status
            /\ req[p].res.code = req[q].res.code
            /\ req[p].auth.ran =>
                  \A x \in {p, q} :
                      /\ req[x].auth.attached
                      /\ req[x].auth.user = users[req[x].auth.cred]

\* Both compositions let the same user through to a route of the same role,
\* with the user and the session attached.
C28_Witness ==
    /\ Decided(1, "roleOnly") /\ Decided(2, "authThenRole")
    /\ req[1].auth.cred = "u1" /\ req[2].auth.cred = "u1"
    /\ req[1].auth.role = req[2].auth.role
    /\ req[1].auth.ran /\ req[2].auth.ran
    /\ req[1].auth.attached /\ req[2].auth.attached

\* The caller's own profiles.
OwnStudent(p) == FindStudentByUser(req[p].user)
OwnTutor(p) == FindTutorByUser(req[p].user)

StudentOwned == {"cancelMyBooking", "getMyBookingById", "createMyReview"}
TutorOwned == {"markSessionCompleted", "getMySessionById"}

\* The booking slot p's request names exists and belongs to another party.
NotOwn(p) ==
    /\ req[p].bid \in DOMAIN bookings
    /\ req[p].op \in StudentOwned =>
          bookings[req[p].bid].studentId # OwnStudent(p)
    /\ req[p].op \in TutorOwned =>
          bookings[req[p].bid].tutorId # OwnTutor(p)

\* The bookings and reviews a step changes or creates.
BookingsChanged ==
    {b \in DOMAIN bookings : b \in DOMAIN bookings' /\ bookings'[b] # bookings[b]}

\* C29: cancelMyBooking, getMyBookingById and createMyReview act only on
\* bookings of the caller's own student profile, markSessionCompleted and
\* getMySessionById only on bookings of the caller's own tutor profile; with
\* another party's bookingId they answer NotFound, or return nothing, and
\* change nothing; a created Review carries the studentId and tutorId of its
\* booking.
C29_OwnershipIsolation ==
    [][\A p \in Slots :
         (req[p].op \in StudentOwned \cup TutorOwned /\ req'[p] # req[p]) =>
            /\ \A b \in BookingsChanged :
                 /\ b = req[p].bid
                 /\ req[p].op = "cancelMyBooking" =>
                      bookings[b].studentId = OwnStudent(p)
                 /\ req[p].op = "markSessionCompleted" =>
                      bookings[b].tutorId = OwnTutor(p)
            /\ \A r \in reviews' \ reviews :
                 /\ req[p].op = "createMyReview"
                 /\ r.bookingId = req[p].bid
                 /\ r.studentId = bookings[r.bookingId].studentId
                 /\ r.tutorId = bookings[r.bookingId].tutorId
                 /\ r.studentId = OwnStudent(p)
            /\ Done(p)' =>
                 /\ req'[p].out # NoOut =>
                      \A b \in req'[p].out.ids :
                         /\ b = req[p].bid
                         /\ req[p].op = "getMyBookingById" =>
                              bookings[b].studentId = OwnStudent(p)
                         /\ req[p].op = "getMySessionById" =>
                              bookings[b].tutorId = OwnTutor(p)
                 /\ NotOwn(p) =>
                      /\ store' = store
                      /\ IF req'[p].out # NoOut
                         THEN req'[p].out.ids = {}
                         ELSE req'[p].res.status = 404]_vars

\* A student asked to cancel a booking of another student and was answered
\* 404, and a tutor asked for a session of another tutor and got nothing.
C29_Witness ==
    /\ Done(1) /\ req[1].op = "cancelMyBooking" /\ NotOwn(1)
    /\ req[1].res.status = 404
    /\ Done(2) /\ req[2].op = "getMySessionById" /\ NotOwn(2)
    /\ req[2].out = [kind |-> "booking", ids |-> {}]

\* Two fractions of the same value.
SameRatio(a, b) == a.num * b.den = b.num * a.den

\* C30: the avgRating and reviewsCount a tutor's own profile carries
\* (getMyTutorProfile) are those browseTutors and getTutorDetails carry for
\* that tutor: they are taken over all of the tutor's reviews, however many.
C30_RatingsAgree ==
    \A p \in Slots :
        (Done(p) /\ req[p].op = "getMyTutorProfile") =>
            \A i \in req[p].out.items :
                /\ i.reviewsCount = TutorItem(i.tutorId).reviewsCount
                /\ i.reviewsCount = Cardinality(ReviewsOfTutor(i.tutorId))
                /\ SameRatio(i.avgRating, TutorItem(i.tutorId).avgRating)

\* Up to ProfileReviewsTake reviews the profile carries the figures of the
\* other two reads.
RatingsAgreeUpToTake ==
    \A p \in Slots :
        (Done(p) /\ req[p].op = "getMyTutorProfile") =>
            \A i \in req[p].out.items :
                Cardinality(ReviewsOfTutor(i.tutorId)) <= ProfileReviewsTake =>
                    /\ i.reviewsCount = TutorItem(i.tutorId).reviewsCount
                    /\ SameRatio(i.avgRating, TutorItem(i.tutorId).avgRating)

====
